---- MODULE Spec2Model ----
(***************************************************************************)
(* A model of the meeting-minutes pipeline:                                *)
(*   pdf_downloader.wait_for_file_download_completion   (SpecWait)         *)
(*   summarize_text.chunk_text                          (SpecChunk)        *)
(*   id_extractor.extract_ids_from_meeting_minutes      (SpecExtract)      *)
(*   id_extractor.process_and_generate_links            (SpecLinks)        *)
(*   summarize_text.summarize_text_with_gemini          (SpecSummarize)    *)
(* Each component has its own group of variables and its own               *)
(* specification; a specification leaves the other groups untouched.       *)
(***************************************************************************)
EXTENDS Integers, Sequences, FiniteSets, TLC

VARIABLES
    \* ---- wait_for_file_download_completion (pdf_downloader.py:97-158)
    wpc,                    \* position: "idle", "while", "for", "pdf", "done", "raised"
    now,                    \* time.time() - start_download_wait_time, in half seconds
    file_download_timeout,  \* the parameter, in half seconds
    last_size,              \* line 105
    download_complete,      \* line 102
    downloaded_filepath,    \* line 103
    potential_downloads,    \* line 111: the part of the list the for loop has not visited
    stable_check_count,     \* line 141
    sample_no,              \* the index of the range(5) loop of line 142
    \* history of the wait, read only by the properties
    poll,                   \* number of while iterations started
    obsLast,                \* file -> size read at line 126 in the latest earlier poll (-1: none)
    obsCur,                 \* file -> size read at line 126 in the current poll (-1: none)
    solo,                   \* every poll so far listed only SoloFile, existing, non-zero size
    soloSizes,              \* while solo: the size read at line 126 in each poll
    completedAt,            \* the poll in which download_complete was set (0: not set)
    samples,                \* the last sizes (up to three) read at line 144 from the
                            \* .pdf file in hand, in the current poll
    steady,                 \* the download directory when it is steady: candidate file
                            \* -> its size (the empty function when it is not)
    \* ---- chunk_text (summarize_text.py:82-112)
    cpc,                    \* position: "idle", "loop", "done"
    text,                   \* the argument: a sequence of characters
    max_chunk_size,         \* the argument
    sentences,              \* line 99: the sentences the for loop has not visited
    chunks,                 \* line 94
    current_chunk,          \* line 95
    current_length,         \* line 96
    \* ---- summarize_text_with_gemini (summarize_text.py:115-205)
    spc,                    \* position: "idle", "start", "chunks", "merge", "done"
    model,                  \* the argument: TRUE when a model object was passed
    text_to_summarize,      \* the argument
    s_chunks,               \* line 145
    s_i,                    \* line 148: index of the next chunk, from 1
    summaries,              \* line 147
    s_result,               \* the returned string (None before the return)
    api_calls,              \* history: the prompts sent to model.generate_content
    raisedAt,               \* history: the chunk whose call raised (0: none)
    responses,              \* history: what each chunk call gave: a text, "empty", "raised"
    \* ---- process_and_generate_links (id_extractor.py:334-358)
    lpc,                    \* position: "idle", "start", "items", "ids", "done"
    extracted_data,         \* the argument: a dict, as the sequence of its items
    l_items,                \* line 350: the items the outer loop has not visited
    l_ids,                  \* line 354: the ids the inner loop has not visited
    generated_links,        \* line 344
    extracted_data0,        \* history: the argument as it was at the call
    \* ---- extract_ids_from_meeting_minutes (id_extractor.py:78-332)
    epc,                    \* position, see ExtractNext
    categories,             \* the argument (None or a list), then the list in use
    category_index,         \* line 214, from 1
    all_extracted_ids,      \* line 94: a dict, as the sequence of its items
    driver,                 \* "none", "open", "quit"
    current_visible_links,  \* line 217: TRUE when the list is not empty
    page_zero,              \* the page shows the "0 - 0 of 0" marker
    page_has_links,         \* the page shows document links
    page_of,                \* the index of the category whose search rendered what the
                            \* page shows (0: no search yet)
    stale_waited,           \* the index of the last category for which the staleness
                            \* wait of lines 257-270 was performed (0: none)
    doc_links,              \* line 308 (cleared when the next iteration starts)
    exit_code,              \* -1 while running or after a return, else the sys.exit status
    passed,                 \* history: categories whose select, submit and results wait succeeded
    crashed,                \* history: the outer except clause of line 325 ran
    faults,                 \* history: the exceptions raised, as [step, kind, index]
    selected,               \* history: indexes of the categories selected in the dropdown
    submitted,              \* history: indexes of the categories submitted
    frame_tried,            \* history: the frame switch of lines 151-155 was attempted
    trail,                  \* history: how each finished iteration of the loop ended
    \* ---- download_pdf_from_webpage (pdf_downloader.py:161-257)
    dpc,                    \* position, see DownloadNext
    urls,                   \* the argument
    d_i,                    \* line 197: index of the URL in hand, from 1
    d_driver,               \* line 192: "none", "open", "quit"; "orphan": a session that
                            \* setup_chrome_driver started and did not return
    d_raised,               \* the exception an except clause of lines 235-250 is handling
    visited,                \* history: indexes of the URLs passed to driver.get
    d_steps,                \* history: the steps taken, as <<index, step>>
    d_outcome,              \* history: how each URL ended
    d_aborted,              \* history: the outer except clause of line 252 ran
    initial_files,          \* line 202: the names in the download directory before the
                            \* navigation
    download_dir,           \* the files of the download directory, as [name, by]: by is
                            \* the index of the URL whose export wrote the file, 0 for
                            \* a file that was there before the run
    \* ---- run_full_automation_workflow (main.py:75-187)
    mpc,                    \* position, see MainNext
    m_exit,                 \* -1 while running or after a return, else the sys.exit status
    pdf_files_to_summarize, \* line 156: the files the for loop has not visited
    summaries_dir,          \* the files of SUMMARIES_OUTPUT_FOLDER, as [name, content]
    listed,                 \* history: the list of line 156 as it was built
    m_docs,                 \* history: what became of each PDF of the list
    m_cause,                \* history: why the process exited
    m_downloads,            \* history: number of calls of download_pdf_from_webpage
    m_reported,             \* history: the file names the download stage logged as
                            \* completed downloads (line 233)
    m_summarize_calls       \* history: number of calls of summarize_text_with_gemini

wvars == <<wpc, now, file_download_timeout, last_size, download_complete,
           downloaded_filepath, potential_downloads, stable_check_count, sample_no,
           poll, obsLast, obsCur, solo, soloSizes, completedAt,
           samples, steady>>

cvars == <<cpc, text, max_chunk_size, sentences, chunks, current_chunk, current_length>>

svars == <<spc, model, text_to_summarize, s_chunks, s_i, summaries, s_result,
           api_calls, raisedAt, responses>>

lvars == <<lpc, extracted_data, l_items, l_ids, generated_links, extracted_data0>>

evars == <<epc, categories, category_index, all_extracted_ids, driver,
           current_visible_links, page_zero, page_has_links, page_of, stale_waited,
           doc_links, exit_code, passed, crashed, faults, selected, submitted,
           frame_tried, trail>>

ehist == <<faults, selected, submitted, frame_tried, trail>>

dvars == <<dpc, urls, d_i, d_driver, d_raised, visited, d_steps, d_outcome, d_aborted,
           initial_files, download_dir>>

mvars == <<mpc, m_exit, pdf_files_to_summarize, summaries_dir, listed, m_docs, m_cause,
           m_downloads, m_summarize_calls, m_reported>>

vars == <<wvars, cvars, svars, lvars, evars, dvars, mvars>>

notWait == <<cvars, svars, lvars, evars, dvars, mvars>>
notChunk == <<wvars, svars, lvars, evars, dvars, mvars>>
notSummarize == <<wvars, cvars, lvars, evars, dvars, mvars>>
notLinks == <<wvars, cvars, svars, evars, dvars, mvars>>
notExtract == <<wvars, cvars, svars, lvars, dvars, mvars>>
notDownload == <<wvars, cvars, svars, lvars, evars, mvars>>

(***************************************************************************)
(* Bounds of the model.                                                    *)
(***************************************************************************)
MaxSize == 2
MaxTimeout == 6
MaxTextLen == 5
MaxChunk == 4
MaxIds == 2
MaxCats == 2
MaxLinks == 2
MaxUrls == 2
MaxPdfTextLen == 3

(***************************************************************************)
(* wait_for_file_download_completion                                       *)
(***************************************************************************)
None == <<>>

\* time.sleep(1) of line 157 and time.sleep(0.5) of line 143, in half seconds
POLL_SLEEP == 2
SAMPLE_SLEEP == 1
\* range(5) of line 142 and the threshold of line 150
SAMPLE_COUNT == 5
STABLE_CHECKS == 3

DOWNLOAD_DIR == "pdfs_to_process"

\* A file name is the sequence of its dot-separated parts, extension last.
InProgressFile == <<"report", ".pdf", ".crdownload">>
TmpFile == <<"report", ".tmp">>
PdfFile == <<"report", ".pdf">>
OtherFile == <<"notes", ".txt">>
FileNames == {InProgressFile, TmpFile, PdfFile, OtherFile}
SoloFile == InProgressFile

Sizes == 0..MaxSize

endswith(f, suffix) == f[Len(f)] = suffix

IsCandidate(f) == endswith(f, ".pdf") \/ endswith(f, ".crdownload") \/ endswith(f, ".tmp")

IsTemporary(f) == endswith(f, ".crdownload") \/ endswith(f, ".tmp")

path_join(dir, f) == <<dir, f>>

\* every listing order of the set S (a list built from a Python set)
Orderings(S) ==
    {s \in [1..Cardinality(S) -> S] : \A i, j \in 1..Cardinality(S) : i # j => s[i] # s[j]}

TemporaryFiles == {f \in FileNames : IsTemporary(f)}

NoObs == [f \in TemporaryFiles |-> -1]

TempStableAlways(current_size, last) == current_size > 0

\* line 127
TempStable(current_size, last) == current_size = last /\ current_size > 0

WaitInit ==
    /\ wpc = "while"
    /\ now = 0
    /\ file_download_timeout \in 0..MaxTimeout
    /\ last_size = -1
    /\ download_complete = FALSE
    /\ downloaded_filepath = None
    /\ potential_downloads = <<>>
    /\ stable_check_count = 0
    /\ sample_no = 0
    /\ poll = 0
    /\ obsLast = NoObs
    /\ obsCur = NoObs
    /\ solo = TRUE
    /\ soloSizes = <<>>
    /\ completedAt = 0
    /\ samples = <<>>

WaitIdle ==
    /\ wpc = "idle"
    /\ now = 0
    /\ file_download_timeout = 0
    /\ last_size = -1
    /\ download_complete = FALSE
    /\ downloaded_filepath = None
    /\ potential_downloads = <<>>
    /\ stable_check_count = 0
    /\ sample_no = 0
    /\ poll = 0
    /\ obsLast = NoObs
    /\ obsCur = NoObs
    /\ solo = FALSE
    /\ soloSizes = <<>>
    /\ completedAt = 0
    /\ samples = <<>>
    /\ steady = <<>>

\* line 107 true, lines 108-114: one more poll; new_files is any set of file names
W_Poll ==
    /\ wpc = "while"
    /\ now < file_download_timeout /\ ~download_complete
    /\ \E new_files \in SUBSET FileNames :
         /\ \E order \in Orderings({f \in new_files : IsCandidate(f)}) :
                potential_downloads' = order
         /\ solo' = (solo /\ new_files = {SoloFile})
    /\ soloSizes' = IF solo' THEN soloSizes ELSE <<>>
    /\ poll' = poll + 1
    /\ obsLast' = [f \in TemporaryFiles |-> IF obsCur[f] # -1 THEN obsCur[f] ELSE obsLast[f]]
    /\ obsCur' = NoObs
    /\ wpc' = "for"
    /\ UNCHANGED <<now, file_download_timeout, last_size, download_complete,
                   downloaded_filepath, stable_check_count, sample_no, completedAt,
                   samples, steady>>
    /\ UNCHANGED notWait

\* line 107 false, line 158
W_Return ==
    /\ wpc = "while"
    /\ ~(now < file_download_timeout /\ ~download_complete)
    /\ wpc' = "done"
    /\ UNCHANGED <<now, file_download_timeout, last_size, download_complete,
                   downloaded_filepath, potential_downloads, stable_check_count,
                   sample_no, poll, obsLast, obsCur, solo, soloSizes, completedAt,
                   samples, steady>>
    /\ UNCHANGED notWait

\* line 122 false: the file is gone or empty, the for loop goes to the next name
W_ForSkip ==
    /\ wpc = "for"
    /\ potential_downloads # <<>>
    /\ \E exists \in BOOLEAN, size \in Sizes :
         /\ ~(exists /\ size > 0)
    /\ potential_downloads' = Tail(potential_downloads)
    /\ solo' = FALSE
    /\ soloSizes' = <<>>
    /\ UNCHANGED <<wpc, now, file_download_timeout, last_size, download_complete,
                   downloaded_filepath, stable_check_count, sample_no, poll, obsLast,
                   obsCur, completedAt, samples, steady>>
    /\ UNCHANGED notWait

\* lines 122 or 126: os.path.getsize raises because the file vanished after the
\* listing (a rename by the browser); nothing in the function catches it
W_ForRaise ==
    /\ wpc = "for"
    /\ potential_downloads # <<>>
    /\ wpc' = "raised"
    /\ potential_downloads' = <<>>
    /\ solo' = FALSE
    /\ soloSizes' = <<>>
    /\ UNCHANGED <<now, file_download_timeout, last_size, download_complete,
                   downloaded_filepath, stable_check_count, sample_no, poll, obsLast,
                   obsCur, completedAt, samples, steady>>
    /\ UNCHANGED notWait

\* lines 122-136: a file with a temporary extension
W_ForTemp ==
    /\ wpc = "for"
    /\ potential_downloads # <<>>
    /\ LET filename == Head(potential_downloads) IN
       /\ IsTemporary(filename)
       /\ \E size \in Sizes \ {0}, current_size \in Sizes :
            /\ obsCur' = [obsCur EXCEPT ![filename] = current_size]
            /\ solo' = (solo /\ size = current_size)
            /\ soloSizes' = IF solo' THEN Append(soloSizes, current_size) ELSE <<>>
            /\ IF TempStable(current_size, last_size)
               THEN /\ downloaded_filepath' = path_join(DOWNLOAD_DIR, filename)
                    /\ download_complete' = TRUE
                    /\ completedAt' = poll
                    /\ potential_downloads' = <<>>
                    /\ wpc' = "while"
                    /\ UNCHANGED last_size
               ELSE /\ last_size' = current_size
                    /\ potential_downloads' = Tail(potential_downloads)
                    /\ UNCHANGED <<wpc, download_complete, downloaded_filepath,
                                   completedAt>>
    /\ UNCHANGED <<now, file_download_timeout, stable_check_count, sample_no, poll,
                   obsLast, samples, steady>>
    /\ UNCHANGED notWait

\* lines 122, 137-141: a file that already has the .pdf extension
W_ForPdf ==
    /\ wpc = "for"
    /\ potential_downloads # <<>>
    /\ LET filename == Head(potential_downloads) IN
       /\ ~IsTemporary(filename)
       /\ downloaded_filepath' = path_join(DOWNLOAD_DIR, filename)
    /\ stable_check_count' = 0
    /\ sample_no' = 0
    /\ wpc' = "pdf"
    /\ solo' = FALSE
    /\ soloSizes' = <<>>
    /\ samples' = <<>>
    /\ UNCHANGED <<now, file_download_timeout, last_size, download_complete,
                   potential_downloads, poll, obsLast, obsCur, completedAt, steady>>
    /\ UNCHANGED notWait

\* the samples that the threshold of line 150 spans
LastSamples(seq) == IF Len(seq) > STABLE_CHECKS THEN Tail(seq) ELSE seq

SampleStableAnySize(new_size, last) == new_size = last

\* line 145: the test that lets a sample count towards stability
SampleStable(new_size, last) == new_size = last /\ new_size > 0

\* lines 142-155: one pass of the sampling loop
W_PdfSample ==
    /\ wpc = "pdf"
    /\ now' = now + SAMPLE_SLEEP
    /\ \E new_size \in Sizes :
         LET count == IF SampleStable(new_size, last_size)
                      THEN stable_check_count + 1 ELSE 0
         IN
         /\ last_size' = new_size
         /\ samples' = IF count < STABLE_CHECKS /\ sample_no + 1 = SAMPLE_COUNT
                       THEN <<>> ELSE LastSamples(Append(samples, new_size))
         /\ stable_check_count' = count
         /\ IF count >= STABLE_CHECKS
            THEN /\ download_complete' = TRUE
                 /\ completedAt' = poll
                 /\ potential_downloads' = <<>>
                 /\ sample_no' = sample_no + 1
                 /\ wpc' = "while"
            ELSE /\ UNCHANGED <<download_complete, completedAt>>
                 /\ IF sample_no + 1 = SAMPLE_COUNT
                    THEN /\ potential_downloads' = Tail(potential_downloads)
                         /\ sample_no' = 0
                         /\ wpc' = "for"
                    ELSE /\ sample_no' = sample_no + 1
                         /\ UNCHANGED <<potential_downloads, wpc>>
    /\ UNCHANGED <<file_download_timeout, downloaded_filepath, poll, obsLast, obsCur,
                   solo, soloSizes, steady>>
    /\ UNCHANGED notWait

\* line 144: os.path.getsize raises because the file vanished while sampled
W_PdfRaise ==
    /\ wpc = "pdf"
    /\ wpc' = "raised"
    /\ potential_downloads' = <<>>
    /\ UNCHANGED <<now, file_download_timeout, last_size, download_complete,
                   downloaded_filepath, stable_check_count, sample_no, poll, obsLast,
                   obsCur, solo, soloSizes, completedAt, samples, steady>>
    /\ UNCHANGED notWait

\* lines 116, 118 exhausted, 156-157
W_Sleep ==
    /\ wpc = "for"
    /\ potential_downloads = <<>>
    /\ now' = now + POLL_SLEEP
    /\ wpc' = "while"
    /\ UNCHANGED <<file_download_timeout, last_size, download_complete,
                   downloaded_filepath, potential_downloads, stable_check_count,
                   sample_no, poll, obsLast, obsCur, solo, soloSizes, completedAt,
                   samples, steady>>
    /\ UNCHANGED notWait

WaitNext ==
    \/ W_Poll
    \/ W_Return
    \/ W_ForSkip
    \/ W_ForRaise
    \/ W_ForTemp
    \/ W_ForPdf
    \/ W_PdfSample
    \/ W_PdfRaise
    \/ W_Sleep

(***************************************************************************)
(* wait_for_file_download_completion in a steady download directory: from  *)
(* the first poll on, the new candidate files are the files of steady and  *)
(* each keeps the non-zero size steady gives it.  The steps are those of   *)
(* the function; the directory listing and os.path.getsize answer from     *)
(* steady.                                                                 *)
(***************************************************************************)
CandidateFiles == {f \in FileNames : IsCandidate(f)}

SteadyDirs ==
    UNION {[S -> Sizes \ {0}] : S \in (SUBSET CandidateFiles) \ {{}}}

SteadyPaths == {path_join(DOWNLOAD_DIR, f) : f \in DOMAIN steady}

SteadyInit == WaitInit /\ steady \in SteadyDirs

\* lines 108-114: the listing holds exactly the steady candidates, in any order
St_Poll ==
    /\ W_Poll
    /\ potential_downloads' \in Orderings(DOMAIN steady)

\* lines 122-136: both size reads of the file give its steady size
St_ForTemp ==
    /\ W_ForTemp
    /\ obsCur'[Head(potential_downloads)] = steady[Head(potential_downloads)]

\* line 144: the sample gives the file's steady size
St_PdfSample ==
    /\ W_PdfSample
    /\ last_size' = steady[downloaded_filepath[2]]

SteadyNext ==
    \/ St_Poll
    \/ W_Return
    \/ St_ForTemp
    \/ W_ForPdf
    \/ St_PdfSample
    \/ W_Sleep

(***************************************************************************)
(* Properties of wait_for_file_download_completion                         *)
(***************************************************************************)
CompletedFile == downloaded_filepath[2]

\* C1 (as claimed): a file with an in-progress extension is declared complete only
\* if the size of that same file was read in an earlier poll and is read
\* unchanged and non-zero in the current poll.
C1_TempCompleteOnlyOnOwnEarlierSize ==
    (download_complete /\ downloaded_filepath # None /\ IsTemporary(CompletedFile))
        => /\ obsCur[CompletedFile] > 0
           /\ obsLast[CompletedFile] = obsCur[CompletedFile]

\* C2 (as claimed): when the function returns without completion having been
\* declared, it returns None.
C2_NoneUnlessComplete ==
    (wpc = "done" /\ ~download_complete) => downloaded_filepath = None

\* C3: while the only new file is one in-progress file with non-zero sizes
\* s1, s2, ..., completion is declared, with that file's path, at the first
\* poll k >= 2 with s_k = s_(k-1) and at no earlier poll.
C3_SoloCompletesAtFirstRepeat ==
    solo =>
        LET n == Len(soloSizes) IN
        /\ \A k \in 2..(n - 1) : soloSizes[k] # soloSizes[k - 1]
        /\ download_complete <=> (n >= 2 /\ soloSizes[n] = soloSizes[n - 1])
        /\ download_complete =>
              /\ downloaded_filepath = path_join(DOWNLOAD_DIR, SoloFile)
              /\ completedAt = n

\* sizes 100, 150, 150 (scaled): completion at the third poll
C3_Witness ==
    /\ solo
    /\ soloSizes = <<1, 2, 2>>
    /\ download_complete
    /\ completedAt = 3
    /\ wpc = "done"

\* C27: whenever completion is declared for a file bearing the final .pdf
\* extension, at least three samples of that file were taken in the current
\* poll and the last three of them are equal and non-zero, whatever
\* last_size held before the sampling began; no zero-size file is ever
\* declared complete.
C27_PdfCompleteOnThreeEqualSamples ==
    /\ (download_complete /\ downloaded_filepath # None /\ ~IsTemporary(CompletedFile))
          => LET n == Len(samples) IN
             /\ n >= STABLE_CHECKS
             /\ \A k \in (n - STABLE_CHECKS + 1)..n :
                   samples[k] = samples[n] /\ samples[k] > 0
    /\ download_complete => last_size > 0

\* the first sample repeats a size left in last_size by an in-progress file:
\* completion after exactly three samples, all equal
C27_Witness ==
    /\ download_complete
    /\ downloaded_filepath = path_join(DOWNLOAD_DIR, PdfFile)
    /\ samples = <<1, 1, 1>>
    /\ obsCur[InProgressFile] = 1
    /\ wpc = "done"

\* two polls fit before the timeout: the while test of line 107 is still true
\* after one time.sleep(1)
EnoughTime == POLL_SLEEP + 1

\* C23 (as claimed): when the new candidate files and their non-zero sizes
\* stay the same from the first poll on and the timeout leaves room for
\* two polls, the function eventually returns, with completion declared and
\* the path of one of those files.
C23_SteadyFilesComplete ==
    (file_download_timeout >= EnoughTime)
        => <>(wpc = "done" /\ download_complete /\ downloaded_filepath \in SteadyPaths)

(***************************************************************************)
(* chunk_text                                                              *)
(***************************************************************************)
\* A text is a sequence of characters; "." is the sentence delimiter.
Chars == {"a", " ", "."}

Texts == UNION {[1..n -> Chars] : n \in 0..MaxTextLen}

RECURSIVE FirstDot(_, _)
\* the index of the first "." of t at or after i, or 0
FirstDot(t, i) ==
    IF i > Len(t) THEN 0
    ELSE IF t[i] = "." THEN i
    ELSE FirstDot(t, i + 1)

RECURSIVE split(_)
\* str.split('.')
split(t) ==
    LET i == FirstDot(t, 1) IN
    IF i = 0 THEN <<t>>
    ELSE <<SubSeq(t, 1, i - 1)>> \o split(SubSeq(t, i + 1, Len(t)))

RECURSIVE join(_)
\* ".".join(parts)
join(parts) ==
    IF parts = <<>> THEN <<>>
    ELSE IF Len(parts) = 1 THEN parts[1]
    ELSE parts[1] \o <<".">> \o join(Tail(parts))

CloseChunkNoPeriod(cur) == join(cur)

\* lines 107 and 111: ".".join(current_chunk) + "."
CloseChunk(cur) == join(cur) \o <<".">>

\* line 101
sentence_len(sentence) == Len(sentence) + 1

FitsBelow(length, sentence, max) == length + sentence_len(sentence) < max

\* line 102
Fits(length, sentence, max) == length + sentence_len(sentence) <= max

\* lines 101-109: the body of the for loop, on the loop's state
ChunkBody(st, sentence, max) ==
    IF Fits(st.current_length, sentence, max)
    THEN [chunks |-> st.chunks,
          current_chunk |-> Append(st.current_chunk, sentence),
          current_length |-> st.current_length + sentence_len(sentence)]
    ELSE [chunks |-> IF st.current_chunk # <<>>
                     THEN Append(st.chunks, CloseChunk(st.current_chunk))
                     ELSE st.chunks,
          current_chunk |-> <<sentence>>,
          current_length |-> sentence_len(sentence)]

\* lines 110-112
ChunkFinish(st) ==
    IF st.current_chunk # <<>>
    THEN Append(st.chunks, CloseChunk(st.current_chunk))
    ELSE st.chunks

RECURSIVE ChunkLoop(_, _, _)
ChunkLoop(st, rest, max) ==
    IF rest = <<>> THEN ChunkFinish(st)
    ELSE ChunkLoop(ChunkBody(st, Head(rest), max), Tail(rest), max)

\* lines 94-112 as a function of its arguments
chunk_text(t, max) ==
    ChunkLoop([chunks |-> <<>>, current_chunk |-> <<>>, current_length |-> 0],
              split(t), max)

ChunkState == [chunks |-> chunks, current_chunk |-> current_chunk,
               current_length |-> current_length]

ChunkInit ==
    /\ cpc = "loop"
    /\ text \in Texts
    /\ max_chunk_size \in 1..MaxChunk
    /\ sentences = split(text)
    /\ chunks = <<>>
    /\ current_chunk = <<>>
    /\ current_length = 0

ChunkIdle ==
    /\ cpc = "idle"
    /\ text = <<>>
    /\ max_chunk_size = 0
    /\ sentences = <<>>
    /\ chunks = <<>>
    /\ current_chunk = <<>>
    /\ current_length = 0

\* lines 100-104: the sentence fits the current chunk
C_Fit ==
    /\ cpc = "loop"
    /\ sentences # <<>>
    /\ Fits(current_length, Head(sentences), max_chunk_size)
    /\ LET st == ChunkBody(ChunkState, Head(sentences), max_chunk_size) IN
       /\ chunks' = st.chunks
       /\ current_chunk' = st.current_chunk
       /\ current_length' = st.current_length
    /\ sentences' = Tail(sentences)
    /\ UNCHANGED <<cpc, text, max_chunk_size>>
    /\ UNCHANGED notChunk

\* lines 100-101, 105-109: the sentence does not fit, the current chunk is closed
C_Close ==
    /\ cpc = "loop"
    /\ sentences # <<>>
    /\ ~Fits(current_length, Head(sentences), max_chunk_size)
    /\ LET st == ChunkBody(ChunkState, Head(sentences), max_chunk_size) IN
       /\ chunks' = st.chunks
       /\ current_chunk' = st.current_chunk
       /\ current_length' = st.current_length
    /\ sentences' = Tail(sentences)
    /\ UNCHANGED <<cpc, text, max_chunk_size>>
    /\ UNCHANGED notChunk

\* lines 110-112
C_Finish ==
    /\ cpc = "loop"
    /\ sentences = <<>>
    /\ chunks' = ChunkFinish(ChunkState)
    /\ cpc' = "done"
    /\ UNCHANGED <<text, max_chunk_size, sentences, current_chunk, current_length>>
    /\ UNCHANGED notChunk

ChunkNext ==
    \/ C_Fit
    \/ C_Close
    \/ C_Finish

(***************************************************************************)
(* Properties of chunk_text                                                *)
(***************************************************************************)
RECURSIVE Concat(_)
Concat(ss) == IF ss = <<>> THEN <<>> ELSE Head(ss) \o Concat(Tail(ss))

\* C4 (as claimed): every chunk returned by chunk_text has length at most
\* max_chunk_size.
C4_ChunksWithinThreshold ==
    cpc = "done" => \A i \in 1..Len(chunks) : Len(chunks[i]) <= max_chunk_size

\* C5: the chunks, concatenated in order, are the text followed by one extra
\* ".", and a text that fits the threshold with its delimiter gives the single
\* chunk text + ".".
C5_ConcatReconstructs ==
    cpc = "done" =>
        /\ Concat(chunks) = text \o <<".">>
        /\ (Len(text) + 1 <= max_chunk_size) => chunks = <<text \o <<".">>>>

\* "a.aa.a" cut in three
C5_Witness ==
    /\ cpc = "done"
    /\ text = <<"a", ".", "a", "a", ".">>
    /\ max_chunk_size = 3
    /\ chunks = <<<<"a", ".">>, <<"a", "a", ".">>, <<".">>>>

\* C29: chunk_text packs greedily and in order: a chunk is closed only when
\* the next sentence does not fit, so for every two consecutive chunks the
\* length of the earlier chunk plus the length of the first sentence of the
\* later chunk plus one delimiter exceeds max_chunk_size (the first sentence
\* of a chunk ends at its first "."); and no returned chunk is empty.
C29_GreedyPacking ==
    /\ \A i \in 1..Len(chunks) : chunks[i] # <<>>
    /\ \A i \in 1..(Len(chunks) - 1) :
          Len(chunks[i]) + (FirstDot(chunks[i + 1], 1) - 1) + 1 > max_chunk_size
    /\ (cpc = "loop" /\ chunks # <<>>) =>
          Len(chunks[Len(chunks)]) + Len(current_chunk[1]) + 1 > max_chunk_size
    /\ cpc = "done" => Concat(chunks) = text \o <<".">>

\* "a.a.a" with threshold 4: two sentences packed, the third opens a chunk
C29_Witness ==
    /\ cpc = "done"
    /\ text = <<"a", ".", "a", ".", "a">>
    /\ max_chunk_size = 4
    /\ chunks = <<<<"a", ".", "a", ".">>, <<"a", ".">>>>

(***************************************************************************)
(* summarize_text_with_gemini                                              *)
(***************************************************************************)
\* line 25, scaled: 30000 characters in the source
MAX_TEXT_LENGTH_FOR_SINGLE_CALL == 2

\* what response.text can be, and what an exception can say
Replies == {"r1", "r2"}
Exceptions == {"exc"}

\* line 137: text.strip() is empty
IsBlank(t) == \A i \in 1..Len(t) : t[i] = " "

\* textwrap.fill(text, width=80)
fill(t) == <<"textwrap.fill", t, 80>>

\* lines 141, 150, 173, 191: the three prompts
ChunkPrompt(chunk) == [kind |-> "chunk", body |-> chunk]
FinalPrompt(combined) == [kind |-> "final", body |-> combined]
SinglePrompt(t) == [kind |-> "single", body |-> t]

RECURSIVE join_summaries(_)
\* line 172: "\n\n".join(summaries)
join_summaries(ss) ==
    IF ss = <<>> THEN <<>>
    ELSE IF Len(ss) = 1 THEN <<ss[1]>>
    ELSE <<ss[1], "\n\n">> \o join_summaries(Tail(ss))

\* the strings the function returns, as sequences of their parts
ERR_NO_MODEL == <<"Error: Gemini model not initialized. Check API key.">>
ERR_EMPTY == <<"Error: Input text for summarization is empty.">>
ERR_NO_SUMMARIES == <<"Could not get any summaries from document parts.">>
ErrChunk(e) == <<"An error occurred while summarizing ", "part of the document", ": ", e>>
ErrFinalEmpty == <<"Gemini did not generate final summary. Debug: ", "response">>
ErrFinal(e) == <<"An error occurred while calling Gemini API for final summarization: ", e>>
ErrSingleEmpty ==
    <<"Gemini did not generate text. Perhaps there's an issue with the prompt or model. Debug: ",
      "response">>
ErrSingle(e) == <<"An error occurred while calling Gemini API: ", e>>

NeedsFinalPassAlways(ss) == Len(ss) >= 1

\* line 170
NeedsFinalPass(ss) == Len(ss) > 1

SummarizeInit ==
    /\ spc = "start"
    /\ model \in BOOLEAN
    /\ text_to_summarize \in Texts
    /\ s_chunks = <<>>
    /\ s_i = 0
    /\ summaries = <<>>
    /\ s_result = None
    /\ api_calls = <<>>
    /\ raisedAt = 0
    /\ responses = <<>>

SummarizeIdle ==
    /\ spc = "idle"
    /\ model = FALSE
    /\ text_to_summarize = <<>>
    /\ s_chunks = <<>>
    /\ s_i = 0
    /\ summaries = <<>>
    /\ s_result = None
    /\ api_calls = <<>>
    /\ raisedAt = 0
    /\ responses = <<>>

\* lines 134-135
S_NoModel ==
    /\ spc = "start"
    /\ ~model
    /\ s_result' = ERR_NO_MODEL
    /\ spc' = "done"
    /\ UNCHANGED <<model, text_to_summarize, s_chunks, s_i, summaries, api_calls, raisedAt, responses>>
    /\ UNCHANGED notSummarize

S_EmptyTextCallsApi ==
    /\ spc = "start"
    /\ model
    /\ IsBlank(text_to_summarize)
    /\ api_calls' = Append(api_calls, SinglePrompt(text_to_summarize))
    /\ s_result' = ErrSingleEmpty
    /\ spc' = "done"
    /\ UNCHANGED <<model, text_to_summarize, s_chunks, s_i, summaries, raisedAt, responses>>
    /\ UNCHANGED notSummarize

\* lines 137-138
S_EmptyText ==
    /\ spc = "start"
    /\ model
    /\ IsBlank(text_to_summarize)
    /\ s_result' = ERR_EMPTY
    /\ spc' = "done"
    /\ UNCHANGED <<model, text_to_summarize, s_chunks, s_i, summaries, api_calls, raisedAt, responses>>
    /\ UNCHANGED notSummarize

\* lines 143-147
S_Split ==
    /\ spc = "start"
    /\ model
    /\ ~IsBlank(text_to_summarize)
    /\ Len(text_to_summarize) > MAX_TEXT_LENGTH_FOR_SINGLE_CALL
    /\ s_chunks' = chunk_text(text_to_summarize, MAX_TEXT_LENGTH_FOR_SINGLE_CALL)
    /\ s_i' = 1
    /\ summaries' = <<>>
    /\ spc' = "chunks"
    /\ UNCHANGED <<model, text_to_summarize, s_result, api_calls, raisedAt, responses>>
    /\ UNCHANGED notSummarize

\* lines 148-160: the call for one chunk returns text
S_ChunkText ==
    /\ spc = "chunks"
    /\ s_i <= Len(s_chunks)
    /\ api_calls' = Append(api_calls, ChunkPrompt(s_chunks[s_i]))
    /\ \E reply \in Replies :
         /\ summaries' = Append(summaries, reply)
         /\ responses' = Append(responses, reply)
    /\ s_i' = s_i + 1
    /\ UNCHANGED <<spc, model, text_to_summarize, s_chunks, s_result, raisedAt>>
    /\ UNCHANGED notSummarize

S_ChunkEmptyAborts ==
    /\ spc = "chunks"
    /\ s_i <= Len(s_chunks)
    /\ api_calls' = Append(api_calls, ChunkPrompt(s_chunks[s_i]))
    /\ responses' = Append(responses, "empty")
    /\ s_result' = ERR_NO_SUMMARIES
    /\ spc' = "done"
    /\ UNCHANGED <<model, text_to_summarize, s_chunks, s_i, summaries, raisedAt>>
    /\ UNCHANGED notSummarize

\* lines 148-159, 161-162: the call for one chunk returns no candidates
S_ChunkEmpty ==
    /\ spc = "chunks"
    /\ s_i <= Len(s_chunks)
    /\ api_calls' = Append(api_calls, ChunkPrompt(s_chunks[s_i]))
    /\ s_i' = s_i + 1
    /\ responses' = Append(responses, "empty")
    /\ UNCHANGED <<spc, model, text_to_summarize, s_chunks, summaries, s_result, raisedAt>>
    /\ UNCHANGED notSummarize

S_ChunkRaiseContinue ==
    /\ spc = "chunks"
    /\ s_i <= Len(s_chunks)
    /\ api_calls' = Append(api_calls, ChunkPrompt(s_chunks[s_i]))
    /\ raisedAt' = s_i
    /\ responses' = Append(responses, "raised")
    /\ s_result' = ErrChunk("exc")
    /\ s_i' = s_i + 1
    /\ UNCHANGED <<spc, model, text_to_summarize, s_chunks, summaries>>
    /\ UNCHANGED notSummarize

\* lines 148-158, 163-165: the call for one chunk raises
S_ChunkRaise ==
    /\ spc = "chunks"
    /\ s_i <= Len(s_chunks)
    /\ api_calls' = Append(api_calls, ChunkPrompt(s_chunks[s_i]))
    /\ raisedAt' = s_i
    /\ responses' = Append(responses, "raised")
    /\ \E e \in Exceptions : s_result' = ErrChunk(e)
    /\ spc' = "done"
    /\ UNCHANGED <<model, text_to_summarize, s_chunks, s_i, summaries>>
    /\ UNCHANGED notSummarize

\* lines 167-168
S_NoSummaries ==
    /\ spc = "chunks"
    /\ s_i > Len(s_chunks)
    /\ summaries = <<>>
    /\ s_result' = ERR_NO_SUMMARIES
    /\ spc' = "done"
    /\ UNCHANGED <<model, text_to_summarize, s_chunks, s_i, summaries, api_calls, raisedAt, responses>>
    /\ UNCHANGED notSummarize

\* lines 170-187: the final pass, with its three outcomes
S_Final ==
    /\ spc = "chunks"
    /\ s_i > Len(s_chunks)
    /\ summaries # <<>>
    /\ NeedsFinalPass(summaries)
    /\ api_calls' = Append(api_calls, FinalPrompt(join_summaries(summaries)))
    /\ \/ \E reply \in Replies : s_result' = fill(reply)
       \/ s_result' = ErrFinalEmpty
       \/ \E e \in Exceptions : s_result' = ErrFinal(e)
    /\ spc' = "done"
    /\ UNCHANGED <<model, text_to_summarize, s_chunks, s_i, summaries, raisedAt, responses>>
    /\ UNCHANGED notSummarize

\* lines 188-189
S_Direct ==
    /\ spc = "chunks"
    /\ s_i > Len(s_chunks)
    /\ summaries # <<>>
    /\ ~NeedsFinalPass(summaries)
    /\ s_result' = fill(summaries[1])
    /\ spc' = "done"
    /\ UNCHANGED <<model, text_to_summarize, s_chunks, s_i, summaries, api_calls, raisedAt, responses>>
    /\ UNCHANGED notSummarize

\* lines 190-205: the single call, with its three outcomes
S_Single ==
    /\ spc = "start"
    /\ model
    /\ ~IsBlank(text_to_summarize)
    /\ ~(Len(text_to_summarize) > MAX_TEXT_LENGTH_FOR_SINGLE_CALL)
    /\ api_calls' = Append(api_calls, SinglePrompt(text_to_summarize))
    /\ \/ \E reply \in Replies : s_result' = fill(reply)
       \/ s_result' = ErrSingleEmpty
       \/ \E e \in Exceptions : s_result' = ErrSingle(e)
    /\ spc' = "done"
    /\ UNCHANGED <<model, text_to_summarize, s_chunks, s_i, summaries, raisedAt, responses>>
    /\ UNCHANGED notSummarize

SummarizeNext ==
    \/ S_NoModel
    \/ S_EmptyText
    \/ S_Split
    \/ S_ChunkText
    \/ S_ChunkEmpty
    \/ S_ChunkRaise
    \/ S_NoSummaries
    \/ S_Final
    \/ S_Direct
    \/ S_Single

(***************************************************************************)
(* Properties of summarize_text_with_gemini                                *)
(***************************************************************************)
Contains(str, part) == \E i \in 1..Len(str) : str[i] = part

\* the function took the chunked path and has returned
ChunkedDone ==
    /\ spc = "done"
    /\ model
    /\ ~IsBlank(text_to_summarize)
    /\ Len(text_to_summarize) > MAX_TEXT_LENGTH_FOR_SINGLE_CALL

FinalCallPositions == {i \in 1..Len(api_calls) : api_calls[i].kind = "final"}

ChunkCallPositions == {i \in 1..Len(api_calls) : api_calls[i].kind = "chunk"}

\* the final pass was made once, after a call for every chunk, over the joined summaries
FinalPassMadeOnce ==
    /\ FinalCallPositions = {Len(s_chunks) + 1}
    /\ ChunkCallPositions = 1..Len(s_chunks)
    /\ api_calls[Len(api_calls)] = FinalPrompt(join_summaries(summaries))

\* a partial summary was returned as the summary of the document
ReturnedDirect ==
    /\ FinalCallPositions = {}
    /\ summaries # <<>>
    /\ s_result = fill(summaries[1])

\* C9 (as claimed): when several chunks resulted and no call raised, the final
\* pass is made exactly once after all chunk calls; a partial summary is
\* returned directly only when exactly one chunk resulted.
C9_FinalPassWheneverSeveralChunks ==
    (ChunkedDone /\ raisedAt = 0) =>
        /\ Len(s_chunks) > 1 => FinalPassMadeOnce
        /\ ReturnedDirect => Len(s_chunks) = 1

\* C9 (amended): when several chunk calls returned a partial summary and no
\* chunk call raised, the final pass over the joined partial summaries is made
\* exactly once, after all chunk calls; otherwise no final pass is made, and a
\* partial summary is returned directly exactly when one partial summary was
\* obtained, however many chunks resulted.
C9_FinalPassWheneverSeveralSummaries ==
    (ChunkedDone /\ raisedAt = 0) =>
        /\ Len(summaries) > 1 => FinalPassMadeOnce
        /\ Len(summaries) <= 1 => FinalCallPositions = {}
        /\ ReturnedDirect <=> Len(summaries) = 1

\* three chunks, the second without candidates, then the final pass
C9_Witness ==
    /\ ChunkedDone
    /\ raisedAt = 0
    /\ Len(s_chunks) = 3
    /\ Len(summaries) = 2
    /\ FinalPassMadeOnce

\* C10: when the call for chunk k of n raises, the function returns an error
\* string containing "part of the document" and has made exactly the k calls
\* for chunks 1..k: none for a later chunk, and no final pass.
C10_RaiseShortCircuits ==
    (spc = "done" /\ raisedAt > 0) =>
        /\ Contains(s_result, "part of the document")
        /\ Len(api_calls) = raisedAt
        /\ \A i \in 1..Len(api_calls) : api_calls[i] = ChunkPrompt(s_chunks[i])

\* the call for chunk 2 of 3 raises
C10_Witness ==
    /\ spc = "done"
    /\ raisedAt = 2
    /\ Len(s_chunks) = 3
    /\ Len(api_calls) = 2

\* C30: in the chunked path a chunk call without candidates does not abort
\* the document: when no call raised, one call was made for every chunk, in
\* order; the partial summaries are the texts of the calls that gave one, in
\* order, and the result is built from them alone (returned directly when
\* there is one, the answer to the final pass over their join when there are
\* several); when every chunk call came back empty the fixed string "Could
\* not get any summaries from document parts." is returned and no final
\* pass is made.
C30_EmptyChunkDoesNotAbort ==
    (ChunkedDone /\ raisedAt = 0) =>
        LET GaveText(r) == r # "empty" IN
        /\ Len(responses) = Len(s_chunks)
        /\ ChunkCallPositions = 1..Len(s_chunks)
        /\ \A k \in 1..Len(s_chunks) : api_calls[k] = ChunkPrompt(s_chunks[k])
        /\ summaries = SelectSeq(responses, GaveText)
        /\ (\A k \in 1..Len(responses) : responses[k] = "empty") =>
              /\ s_result = ERR_NO_SUMMARIES
              /\ FinalCallPositions = {}
        /\ Len(summaries) = 1 => (s_result = fill(summaries[1]) /\ FinalCallPositions = {})
        /\ Len(summaries) > 1 =>
              /\ Len(api_calls) = Len(s_chunks) + 1
              /\ api_calls[Len(api_calls)] = FinalPrompt(join_summaries(summaries))

\* two chunks, the first without candidates: the second is still sent and its
\* text is the summary
C30_Witness ==
    /\ ChunkedDone
    /\ raisedAt = 0
    /\ Len(s_chunks) = 2
    /\ responses = <<"empty", "r1">>
    /\ s_result = fill("r1")

\* C11 (as claimed): a call with an empty or whitespace-only text returns
\* 'Error: Input text for summarization is empty.' and makes no API call.
C11_BlankTextGivesEmptyError ==
    (spc = "done" /\ IsBlank(text_to_summarize)) =>
        /\ s_result = ERR_EMPTY
        /\ api_calls = <<>>

\* C11 (amended): a call with an empty or whitespace-only text makes no API
\* call and returns a fixed error string: the empty-input error when a model
\* was passed, the model error (whose check comes first) when none was.
C11_BlankTextGivesFixedError ==
    (spc = "done" /\ IsBlank(text_to_summarize)) =>
        /\ s_result = (IF model THEN ERR_EMPTY ELSE ERR_NO_MODEL)
        /\ api_calls = <<>>

\* a whitespace-only text with a model: the empty-input error, no call
C11_Witness ==
    /\ spc = "done"
    /\ model
    /\ text_to_summarize = <<" ", " ">>
    /\ s_result = ERR_EMPTY
    /\ api_calls = <<>>

(***************************************************************************)
(* The category -> ID list mapping: a Python dict, kept as the sequence of  *)
(* its items in insertion order.                                           *)
(***************************************************************************)
CategoryNames == {"A", "B"}
DocIds == {"1", "2"}

SeqsUpTo(S, n) == UNION {[1..k -> S] : k \in 0..n}

Keys(d) == {d[i].key : i \in 1..Len(d)}

Lookup(d, k) == LET i == CHOOSE j \in 1..Len(d) : d[j].key = k IN d[i].ids

\* d[k] = v: a new key goes last, an existing key keeps its place
DictSet(d, k, v) ==
    IF k \in Keys(d)
    THEN [i \in 1..Len(d) |-> IF d[i].key = k THEN [key |-> k, ids |-> v] ELSE d[i]]
    ELSE Append(d, [key |-> k, ids |-> v])

Dicts ==
    {d \in SeqsUpTo([key : CategoryNames, ids : SeqsUpTo(DocIds, MaxIds)],
                    Cardinality(CategoryNames)) :
        \A i, j \in 1..Len(d) : i # j => d[i].key # d[j].key}

(***************************************************************************)
(* process_and_generate_links                                              *)
(***************************************************************************)
\* line 27 and line 355: BASE_DOC_VIEW_URL_TEMPLATE.format(doc_id=doc_id)
FormatLink(doc_id) ==
    <<"https://portal.laserfiche.com/Portal/DocView.aspx?id=", doc_id, "&repo=r-5c10bb82">>

AppendLinkUnique(links, link) ==
    IF \E i \in 1..Len(links) : links[i] = link THEN links ELSE Append(links, link)

\* line 356
AppendLink(links, link) == Append(links, link)

LinksInit ==
    /\ lpc = "start"
    /\ extracted_data \in Dicts
    /\ extracted_data0 = extracted_data
    /\ l_items = <<>>
    /\ l_ids = <<>>
    /\ generated_links = <<>>

LinksIdle ==
    /\ lpc = "idle"
    /\ extracted_data = <<>>
    /\ extracted_data0 = <<>>
    /\ l_items = <<>>
    /\ l_ids = <<>>
    /\ generated_links = <<>>

\* lines 346-348
L_NoData ==
    /\ lpc = "start"
    /\ extracted_data = <<>>
    /\ generated_links' = <<>>
    /\ lpc' = "done"
    /\ UNCHANGED <<extracted_data, l_items, l_ids, extracted_data0>>
    /\ UNCHANGED notLinks

\* line 350: the loop over extracted_data.items() starts
L_Begin ==
    /\ lpc = "start"
    /\ extracted_data # <<>>
    /\ l_items' = extracted_data
    /\ lpc' = "items"
    /\ UNCHANGED <<extracted_data, l_ids, generated_links, extracted_data0>>
    /\ UNCHANGED notLinks

\* lines 350-353: a category with no ids
L_SkipEmpty ==
    /\ lpc = "items"
    /\ l_items # <<>>
    /\ Head(l_items).ids = <<>>
    /\ l_items' = Tail(l_items)
    /\ UNCHANGED <<lpc, extracted_data, l_ids, generated_links, extracted_data0>>
    /\ UNCHANGED notLinks

\* lines 350-351, 354: a category with ids
L_Category ==
    /\ lpc = "items"
    /\ l_items # <<>>
    /\ Head(l_items).ids # <<>>
    /\ l_ids' = Head(l_items).ids
    /\ lpc' = "ids"
    /\ UNCHANGED <<extracted_data, l_items, generated_links, extracted_data0>>
    /\ UNCHANGED notLinks

\* lines 354-357: one id of the category
L_Link ==
    /\ lpc = "ids"
    /\ l_ids # <<>>
    /\ generated_links' = AppendLink(generated_links, FormatLink(Head(l_ids)))
    /\ l_ids' = Tail(l_ids)
    /\ IF Tail(l_ids) = <<>>
       THEN /\ l_items' = Tail(l_items)
            /\ lpc' = "items"
       ELSE UNCHANGED <<l_items, lpc>>
    /\ UNCHANGED <<extracted_data, extracted_data0>>
    /\ UNCHANGED notLinks

\* line 358
L_Return ==
    /\ lpc = "items"
    /\ l_items = <<>>
    /\ lpc' = "done"
    /\ UNCHANGED <<extracted_data, l_items, l_ids, generated_links, extracted_data0>>
    /\ UNCHANGED notLinks

LinksNext ==
    \/ L_NoData
    \/ L_Begin
    \/ L_SkipEmpty
    \/ L_Category
    \/ L_Link
    \/ L_Return

(***************************************************************************)
(* Properties of process_and_generate_links                                *)
(***************************************************************************)
RECURSIVE SumOfLengths(_)
SumOfLengths(d) == IF d = <<>> THEN 0 ELSE Len(Head(d).ids) + SumOfLengths(Tail(d))

\* number of ids in the categories before category c
Offset(d, c) == SumOfLengths(SubSeq(d, 1, c - 1))

\* C8: the output is the sequence of template-substituted links, one per
\* (category, id) pair, in the mapping's category order and ID-list order; its
\* length is the sum of the ID-list lengths, and the mapping is unchanged.
C8_LinksAreTheFlattenedMapping ==
    lpc = "done" =>
        /\ Len(generated_links) = SumOfLengths(extracted_data0)
        /\ \A c \in 1..Len(extracted_data0) :
             \A j \in 1..Len(extracted_data0[c].ids) :
                /\ Offset(extracted_data0, c) + j \in 1..Len(generated_links)
                /\ generated_links[Offset(extracted_data0, c) + j]
                      = FormatLink(extracted_data0[c].ids[j])
        /\ extracted_data = extracted_data0

\* {"A": ["1", "2"], "B": []} gives two links
C8_Witness ==
    /\ lpc = "done"
    /\ extracted_data0 = <<[key |-> "A", ids |-> <<"1", "2">>], [key |-> "B", ids |-> <<>>]>>
    /\ generated_links = <<FormatLink("1"), FormatLink("2")>>

(***************************************************************************)
(* extract_ids_from_meeting_minutes                                        *)
(***************************************************************************)
\* categories=None
CategoriesNone == <<"<None>">>

\* An href is the sequence of its parts; a document link carries an id.
DocHref(id) == <<"/Portal/DocView.aspx?id=", id>>
OtherHref == <<"/Portal/Browse.aspx">>
Hrefs == {DocHref(id) : id \in DocIds} \cup {OtherHref}

\* line 308: href matches /Portal/DocView.aspx\?id=(\d+)
IsDocHref(h) == Len(h) = 2 /\ h[1] = "/Portal/DocView.aspx?id="

\* lines 313-315: match.group(1)
DocIdOf(h) == h[2]

HasDocLink(links) == \E i \in 1..Len(links) : IsDocHref(links[i])

Range(seq) == {seq[i] : i \in 1..Len(seq)}

ExtractedListsNoSet(links) == {[i \in 1..Len(links) |-> DocIdOf(links[i])]}

\* lines 310-318: the ids go through a set; list(set) has any order
ExtractedLists(links) == Orderings({DocIdOf(links[i]) : i \in 1..Len(links)})

Category == categories[category_index]

\* an exception raised at a step of the run
Fault(step, kind) == [step |-> step, kind |-> kind, index |-> category_index]

\* save_screenshot raising inside an except clause
ScreenshotFault == Fault("screenshot", "wde")

\* the end of one iteration of the category loop
Ended(outcome, ids) == [category |-> Category, outcome |-> outcome, ids |-> ids]

ExtractInit ==
    /\ epc = "start"
    /\ categories \in {CategoriesNone} \cup SeqsUpTo(CategoryNames, MaxCats)
    /\ category_index = 0
    /\ all_extracted_ids = <<>>
    /\ driver = "none"
    /\ current_visible_links = FALSE
    /\ page_zero = FALSE
    /\ page_has_links = FALSE
    /\ page_of = 0
    /\ stale_waited = 0
    /\ doc_links = <<>>
    /\ exit_code = -1
    /\ passed = {}
    /\ crashed = FALSE
    /\ faults = <<>>
    /\ selected = <<>>
    /\ submitted = <<>>
    /\ frame_tried = FALSE
    /\ trail = <<>>

ExtractIdle ==
    /\ epc = "idle"
    /\ categories = CategoriesNone
    /\ category_index = 0
    /\ all_extracted_ids = <<>>
    /\ driver = "none"
    /\ current_visible_links = FALSE
    /\ page_zero = FALSE
    /\ page_has_links = FALSE
    /\ page_of = 0
    /\ stale_waited = 0
    /\ doc_links = <<>>
    /\ exit_code = -1
    /\ passed = {}
    /\ crashed = FALSE
    /\ faults = <<>>
    /\ selected = <<>>
    /\ submitted = <<>>
    /\ frame_tried = FALSE
    /\ trail = <<>>

\* lines 103-114: a configured executable is missing, sys.exit(1) before the try
E_PathMissing ==
    /\ epc = "start"
    /\ exit_code' = 1
    /\ epc' = "exited"
    /\ UNCHANGED <<categories, category_index, all_extracted_ids, driver,
                   current_visible_links, page_zero, page_has_links, page_of,
                   stale_waited, doc_links, passed, crashed>>
    /\ UNCHANGED ehist
    /\ UNCHANGED notExtract

\* lines 120-125, 325-332: webdriver.Chrome raises, driver stays None
E_DriverFails ==
    /\ epc = "start"
    /\ crashed' = TRUE
    /\ epc' = "returned"
    /\ UNCHANGED <<categories, category_index, all_extracted_ids, driver,
                   current_visible_links, page_zero, page_has_links, page_of,
                   stale_waited, doc_links, exit_code, passed>>
    /\ UNCHANGED ehist
    /\ UNCHANGED notExtract

\* lines 120-129: the browser starts and loads the page
E_Open ==
    /\ epc = "start"
    /\ driver' = "open"
    /\ epc' = "modal"
    /\ UNCHANGED <<categories, category_index, all_extracted_ids, current_visible_links,
                   page_zero, page_has_links, page_of, stale_waited, doc_links,
                   exit_code, passed, crashed>>
    /\ UNCHANGED ehist
    /\ UNCHANGED notExtract

\* lines 128, 325-332: driver.get raises
E_GetFails ==
    /\ epc = "start"
    /\ driver' = "quit"
    /\ crashed' = TRUE
    /\ epc' = "returned"
    /\ UNCHANGED <<categories, category_index, all_extracted_ids, current_visible_links,
                   page_zero, page_has_links, page_of, stale_waited, doc_links,
                   exit_code, passed>>
    /\ UNCHANGED ehist
    /\ UNCHANGED notExtract

E_ModalFatal ==
    /\ epc = "modal"
    /\ \/ /\ UNCHANGED <<faults, driver, exit_code>>
          /\ epc' = "iframe"
       \/ /\ \E kind \in {"timeout", "wde"} : faults' = Append(faults, Fault("modal", kind))
          /\ driver' = "quit"
          /\ exit_code' = 1
          /\ epc' = "exited"
    /\ UNCHANGED <<categories, category_index, all_extracted_ids, current_visible_links,
                   page_zero, page_has_links, page_of, stale_waited, doc_links, passed,
                   crashed>>
    /\ UNCHANGED <<selected, submitted, frame_tried, trail>>
    /\ UNCHANGED notExtract

\* lines 131-148: the modal is closed, or the wait for it times out, or the
\* click raises and a screenshot is saved; the run goes on
E_Modal ==
    /\ epc = "modal"
    /\ \/ UNCHANGED faults
       \/ \E kind \in {"timeout", "wde"} : faults' = Append(faults, Fault("modal", kind))
    /\ epc' = "iframe"
    /\ UNCHANGED <<categories, category_index, all_extracted_ids, driver,
                   current_visible_links, page_zero, page_has_links, page_of,
                   stale_waited, doc_links, exit_code, passed, crashed>>
    /\ UNCHANGED <<selected, submitted, frame_tried, trail>>
    /\ UNCHANGED notExtract

\* lines 146-148, 325-332: the click raises and save_screenshot raises inside the
\* except clause; the outer except clause ends the run
E_ModalCrash ==
    /\ epc = "modal"
    /\ \E kind \in {"wde"} :
         faults' = faults \o <<Fault("modal", kind), ScreenshotFault>>
    /\ crashed' = TRUE
    /\ driver' = "quit"
    /\ epc' = "returned"
    /\ UNCHANGED <<categories, category_index, all_extracted_ids, current_visible_links,
                   page_zero, page_has_links, page_of, stale_waited, doc_links,
                   exit_code, passed>>
    /\ UNCHANGED <<selected, submitted, frame_tried, trail>>
    /\ UNCHANGED notExtract

\* lines 151-156
E_Iframe ==
    /\ epc = "iframe"
    /\ epc' = "scroll"
    /\ UNCHANGED <<categories, category_index, all_extracted_ids, driver,
                   current_visible_links, page_zero, page_has_links, page_of,
                   stale_waited, doc_links, exit_code, passed, crashed>>
    /\ frame_tried' = TRUE
    /\ UNCHANGED <<faults, selected, submitted, trail>>
    /\ UNCHANGED notExtract

\* lines 157-166, 327-330: sys.exit(1), the finally clause quits the browser
E_IframeFails ==
    /\ epc = "iframe"
    /\ driver' = "quit"
    /\ exit_code' = 1
    /\ epc' = "exited"
    /\ UNCHANGED <<categories, category_index, all_extracted_ids, current_visible_links,
                   page_zero, page_has_links, page_of, stale_waited, doc_links, passed,
                   crashed>>
    /\ \E kind \in {"timeout", "wde"} : faults' = Append(faults, Fault("iframe", kind))
    /\ frame_tried' = TRUE
    /\ UNCHANGED <<selected, submitted, trail>>
    /\ UNCHANGED notExtract

\* lines 157-158, 162-163, 325-332: save_screenshot raises before sys.exit is reached
E_IframeCrash ==
    /\ epc = "iframe"
    /\ \E kind \in {"timeout", "wde"} :
         faults' = faults \o <<Fault("iframe", kind), ScreenshotFault>>
    /\ crashed' = TRUE
    /\ driver' = "quit"
    /\ epc' = "returned"
    /\ UNCHANGED <<categories, category_index, all_extracted_ids, current_visible_links,
                   page_zero, page_has_links, page_of, stale_waited, doc_links,
                   exit_code, passed>>
    /\ frame_tried' = TRUE
    /\ UNCHANGED <<selected, submitted, trail>>
    /\ UNCHANGED notExtract

\* lines 169-180
E_Scroll ==
    /\ epc = "scroll"
    /\ epc' = "discover"
    /\ UNCHANGED <<categories, category_index, all_extracted_ids, driver,
                   current_visible_links, page_zero, page_has_links, page_of,
                   stale_waited, doc_links, exit_code, passed, crashed>>
    /\ UNCHANGED ehist
    /\ UNCHANGED notExtract

\* lines 181-190, 327-330
E_ScrollFails ==
    /\ epc = "scroll"
    /\ driver' = "quit"
    /\ exit_code' = 1
    /\ epc' = "exited"
    /\ UNCHANGED <<categories, category_index, all_extracted_ids, current_visible_links,
                   page_zero, page_has_links, page_of, stale_waited, doc_links, passed,
                   crashed>>
    /\ \E kind \in {"timeout", "wde"} : faults' = Append(faults, Fault("scroll", kind))
    /\ UNCHANGED <<selected, submitted, frame_tried, trail>>
    /\ UNCHANGED notExtract

\* lines 181-182, 186-187, 325-332: save_screenshot raises before sys.exit is reached
E_ScrollCrash ==
    /\ epc = "scroll"
    /\ \E kind \in {"timeout", "wde"} :
         faults' = faults \o <<Fault("scroll", kind), ScreenshotFault>>
    /\ crashed' = TRUE
    /\ driver' = "quit"
    /\ epc' = "returned"
    /\ UNCHANGED <<categories, category_index, all_extracted_ids, current_visible_links,
                   page_zero, page_has_links, page_of, stale_waited, doc_links,
                   exit_code, passed>>
    /\ UNCHANGED <<selected, submitted, frame_tried, trail>>
    /\ UNCHANGED notExtract

\* lines 193, 211-212: a category list was given
E_UseGiven ==
    /\ epc = "discover"
    /\ categories # CategoriesNone
    /\ category_index' = 1
    /\ epc' = "loop"
    /\ UNCHANGED <<categories, all_extracted_ids, driver, current_visible_links,
                   page_zero, page_has_links, page_of, stale_waited, doc_links,
                   exit_code, passed, crashed>>
    /\ UNCHANGED ehist
    /\ UNCHANGED notExtract

\* lines 193-207: the categories are read from the dropdown
E_Discover ==
    /\ epc = "discover"
    /\ categories = CategoriesNone
    /\ categories' \in SeqsUpTo(CategoryNames, MaxCats) \ {<<>>}
    /\ category_index' = 1
    /\ epc' = "loop"
    /\ UNCHANGED <<all_extracted_ids, driver, current_visible_links, page_zero,
                   page_has_links, page_of, stale_waited, doc_links, exit_code, passed,
                   crashed>>
    /\ UNCHANGED ehist
    /\ UNCHANGED notExtract

\* lines 203-210, 327-330: no option found, or the reading raises
E_DiscoverFails ==
    /\ epc = "discover"
    /\ categories = CategoriesNone
    /\ driver' = "quit"
    /\ exit_code' = 1
    /\ epc' = "exited"
    /\ UNCHANGED <<categories, category_index, all_extracted_ids, current_visible_links,
                   page_zero, page_has_links, page_of, stale_waited, doc_links, passed,
                   crashed>>
    /\ UNCHANGED ehist
    /\ UNCHANGED notExtract

\* lines 214-217: the next category; the links now on the page are listed
E_LoopTop ==
    /\ epc = "loop"
    /\ category_index <= Len(categories)
    /\ current_visible_links' = page_has_links
    /\ doc_links' = <<>>
    /\ epc' = "select"
    /\ UNCHANGED <<categories, category_index, all_extracted_ids, driver, page_zero,
                   page_has_links, page_of, stale_waited, exit_code, passed, crashed>>
    /\ UNCHANGED ehist
    /\ UNCHANGED notExtract

\* lines 217, 325-332: find_elements raises outside the inner try blocks
E_LoopCrash ==
    /\ epc = "loop"
    /\ category_index <= Len(categories)
    /\ crashed' = TRUE
    /\ driver' = "quit"
    /\ epc' = "returned"
    /\ UNCHANGED <<categories, category_index, all_extracted_ids, current_visible_links,
                   page_zero, page_has_links, page_of, stale_waited, doc_links,
                   exit_code, passed>>
    /\ faults' = Append(faults, Fault("list", "wde"))
    /\ UNCHANGED <<selected, submitted, frame_tried, trail>>
    /\ UNCHANGED notExtract

\* lines 214 exhausted, 327-332
E_Return ==
    /\ epc = "loop"
    /\ category_index > Len(categories)
    /\ driver' = "quit"
    /\ epc' = "returned"
    /\ UNCHANGED <<categories, category_index, all_extracted_ids, current_visible_links,
                   page_zero, page_has_links, page_of, stale_waited, doc_links,
                   exit_code, passed, crashed>>
    /\ UNCHANGED ehist
    /\ UNCHANGED notExtract

\* lines 219-225
E_Select ==
    /\ epc = "select"
    /\ epc' = "submit"
    /\ UNCHANGED <<categories, category_index, all_extracted_ids, driver,
                   current_visible_links, page_zero, page_has_links, page_of,
                   stale_waited, doc_links, exit_code, passed, crashed>>
    /\ selected' = Append(selected, category_index)
    /\ UNCHANGED <<faults, submitted, frame_tried, trail>>
    /\ UNCHANGED notExtract

\* lines 227-236: continue
E_SelectFails ==
    /\ epc = "select"
    /\ category_index' = category_index + 1
    /\ epc' = "loop"
    /\ UNCHANGED <<categories, all_extracted_ids, driver, current_visible_links,
                   page_zero, page_has_links, page_of, stale_waited, doc_links,
                   exit_code, passed, crashed>>
    /\ \E kind \in {"timeout", "nosuch", "wde"} :
         faults' = Append(faults, Fault("select", kind))
    /\ trail' = Append(trail, Ended("skipped", <<>>))
    /\ UNCHANGED <<selected, submitted, frame_tried>>
    /\ UNCHANGED notExtract

E_SubmitThenResultsWait ==
    /\ epc = "submit"
    /\ epc' = "wait"
    /\ UNCHANGED <<categories, category_index, all_extracted_ids, driver,
                   current_visible_links, page_zero, page_has_links, page_of,
                   stale_waited, doc_links, exit_code, passed, crashed>>
    /\ submitted' = Append(submitted, category_index)
    /\ UNCHANGED <<faults, selected, frame_tried, trail>>
    /\ UNCHANGED notExtract

\* lines 238-244: the click on the submit button; the staleness wait follows
E_Submit ==
    /\ epc = "submit"
    /\ epc' = "stale"
    /\ UNCHANGED <<categories, category_index, all_extracted_ids, driver,
                   current_visible_links, page_zero, page_has_links, page_of,
                   stale_waited, doc_links, exit_code, passed, crashed>>
    /\ submitted' = Append(submitted, category_index)
    /\ UNCHANGED <<faults, selected, frame_tried, trail>>
    /\ UNCHANGED notExtract

E_SubmitFailsEndsRun ==
    /\ epc = "submit"
    /\ driver' = "quit"
    /\ epc' = "returned"
    /\ UNCHANGED <<categories, category_index, all_extracted_ids, current_visible_links,
                   page_zero, page_has_links, page_of, stale_waited, doc_links,
                   exit_code, passed, crashed>>
    /\ \E kind \in {"timeout", "wde"} : faults' = Append(faults, Fault("submit", kind))
    /\ trail' = Append(trail, Ended("skipped", <<>>))
    /\ UNCHANGED <<selected, submitted, frame_tried>>
    /\ UNCHANGED notExtract

\* lines 246-253: continue
E_SubmitFails ==
    /\ epc = "submit"
    /\ category_index' = category_index + 1
    /\ epc' = "loop"
    /\ UNCHANGED <<categories, all_extracted_ids, driver, current_visible_links,
                   page_zero, page_has_links, page_of, stale_waited, doc_links,
                   exit_code, passed, crashed>>
    /\ \E kind \in {"timeout", "wde"} : faults' = Append(faults, Fault("submit", kind))
    /\ trail' = Append(trail, Ended("skipped", <<>>))
    /\ UNCHANGED <<selected, submitted, frame_tried>>
    /\ UNCHANGED notExtract

\* lines 256-270: links of the previous search were on the page when the
\* iteration started; the wait for the first of them to become stale ends:
\* the old results are gone, or the wait times out or fails otherwise (each
\* except clause only logs) and the page is as it was
E_StaleWait ==
    /\ epc = "stale"
    /\ current_visible_links
    /\ stale_waited' = category_index
    /\ \E gone \in BOOLEAN :
         IF gone
         THEN /\ page_zero' = FALSE
              /\ page_has_links' = FALSE
              /\ page_of' = category_index
         ELSE UNCHANGED <<page_zero, page_has_links, page_of>>
    /\ epc' = "wait"
    /\ UNCHANGED <<categories, category_index, all_extracted_ids, driver,
                   current_visible_links, doc_links, exit_code, passed, crashed>>
    /\ UNCHANGED ehist
    /\ UNCHANGED notExtract

\* lines 256, 271-272: no link was on the page, nothing is waited for
E_NoPrevious ==
    /\ epc = "stale"
    /\ ~current_visible_links
    /\ epc' = "wait"
    /\ UNCHANGED <<categories, category_index, all_extracted_ids, driver,
                   current_visible_links, page_zero, page_has_links, page_of,
                   stale_waited, doc_links, exit_code, passed, crashed>>
    /\ UNCHANGED ehist
    /\ UNCHANGED notExtract

\* lines 274-275 and 59-76: results_are_loaded returns True: the marker or
\* some document link is shown, rendered by the search just submitted or
\* still there from the search before
E_WaitOk ==
    /\ epc = "wait"
    /\ \/ \E zero \in BOOLEAN, links \in BOOLEAN :
            /\ zero \/ links
            /\ page_zero' = zero
            /\ page_has_links' = links
            /\ page_of' = category_index
       \/ /\ page_zero \/ page_has_links
          /\ UNCHANGED <<page_zero, page_has_links, page_of>>
    /\ passed' = passed \cup {Category}
    /\ epc' = "read"
    /\ UNCHANGED <<categories, category_index, all_extracted_ids, driver,
                   current_visible_links, stale_waited, doc_links, exit_code, crashed>>
    /\ UNCHANGED ehist
    /\ UNCHANGED notExtract

E_WaitSkipRecordsEmpty ==
    /\ epc = "wait"
    /\ \E zero \in BOOLEAN, links \in BOOLEAN :
         /\ page_zero' = zero
         /\ page_has_links' = links
    /\ page_of' = category_index
    /\ all_extracted_ids' = DictSet(all_extracted_ids, Category, <<>>)
    /\ category_index' = category_index + 1
    /\ epc' = "loop"
    /\ UNCHANGED <<categories, driver, current_visible_links, stale_waited, doc_links,
                   exit_code, passed, crashed>>
    /\ \E kind \in {"timeout", "other"} : faults' = Append(faults, Fault("wait", kind))
    /\ trail' = Append(trail, Ended("skipped", <<>>))
    /\ UNCHANGED <<selected, submitted, frame_tried>>
    /\ UNCHANGED notExtract

\* lines 277-281, 286-290: the results wait times out or fails otherwise: continue
E_WaitSkip ==
    /\ epc = "wait"
    /\ \E zero \in BOOLEAN, links \in BOOLEAN :
         /\ page_zero' = zero
         /\ page_has_links' = links
    /\ page_of' = category_index
    /\ category_index' = category_index + 1
    /\ epc' = "loop"
    /\ UNCHANGED <<categories, all_extracted_ids, driver, current_visible_links,
                   stale_waited, doc_links, exit_code, passed, crashed>>
    /\ \E kind \in {"timeout", "other"} : faults' = Append(faults, Fault("wait", kind))
    /\ trail' = Append(trail, Ended("skipped", <<>>))
    /\ UNCHANGED <<selected, submitted, frame_tried>>
    /\ UNCHANGED notExtract

\* lines 277-280, 286-289, 325-332: save_screenshot raises before continue is reached
E_WaitScreenshotRaises ==
    /\ epc = "wait"
    /\ \E kind \in {"timeout", "other"} :
         faults' = faults \o <<Fault("wait", kind), ScreenshotFault>>
    /\ crashed' = TRUE
    /\ driver' = "quit"
    /\ epc' = "returned"
    /\ UNCHANGED <<categories, category_index, all_extracted_ids, current_visible_links,
                   page_zero, page_has_links, page_of, stale_waited, doc_links,
                   exit_code, passed>>
    /\ UNCHANGED <<selected, submitted, frame_tried, trail>>
    /\ UNCHANGED notExtract

\* lines 282-285, 327-330: a WebDriverException that is no timeout: sys.exit(1)
E_WaitCrash ==
    /\ epc = "wait"
    /\ driver' = "quit"
    /\ exit_code' = 1
    /\ epc' = "exited"
    /\ UNCHANGED <<categories, category_index, all_extracted_ids, current_visible_links,
                   page_zero, page_has_links, page_of, stale_waited, doc_links, passed,
                   crashed>>
    /\ faults' = Append(faults, Fault("wait", "wde"))
    /\ UNCHANGED <<selected, submitted, frame_tried, trail>>
    /\ UNCHANGED notExtract

\* lines 292-300: the marker is shown, the category gets an empty list
E_ReadZero ==
    /\ epc = "read"
    /\ page_zero
    /\ all_extracted_ids' = DictSet(all_extracted_ids, Category, <<>>)
    /\ category_index' = category_index + 1
    /\ epc' = "loop"
    /\ UNCHANGED <<categories, driver, current_visible_links, page_zero, page_has_links,
                   page_of, stale_waited, doc_links, exit_code, passed, crashed>>
    /\ trail' = Append(trail, Ended("recorded", <<>>))
    /\ UNCHANGED <<faults, selected, submitted, frame_tried>>
    /\ UNCHANGED notExtract

\* lines 292-308: no marker; the page source is parsed for document links
E_ReadLinks ==
    /\ epc = "read"
    /\ ~page_zero
    /\ \E links \in SeqsUpTo(Hrefs, MaxLinks) :
         /\ HasDocLink(links) = page_has_links
         /\ doc_links' = SelectSeq(links, IsDocHref)
    /\ epc' = "record"
    /\ UNCHANGED <<categories, category_index, all_extracted_ids, driver,
                   current_visible_links, page_zero, page_has_links, page_of,
                   stale_waited, exit_code, passed, crashed>>
    /\ UNCHANGED ehist
    /\ UNCHANGED notExtract

\* lines 293, 305, 325-332: find_element or page_source raises something the
\* inner except clause does not name
E_ReadCrash ==
    /\ epc = "read"
    /\ crashed' = TRUE
    /\ driver' = "quit"
    /\ epc' = "returned"
    /\ UNCHANGED <<categories, category_index, all_extracted_ids, current_visible_links,
                   page_zero, page_has_links, page_of, stale_waited, doc_links,
                   exit_code, passed>>
    /\ faults' = Append(faults, Fault("read", "wde"))
    /\ UNCHANGED <<selected, submitted, frame_tried, trail>>
    /\ UNCHANGED notExtract

\* lines 310-318
E_Record ==
    /\ epc = "record"
    /\ \E ids \in ExtractedLists(doc_links) :
         /\ all_extracted_ids' = DictSet(all_extracted_ids, Category, ids)
         /\ trail' = Append(trail, Ended("recorded", ids))
    /\ category_index' = category_index + 1
    /\ epc' = "loop"
    /\ UNCHANGED <<categories, driver, current_visible_links, page_zero, page_has_links,
                   page_of, stale_waited, doc_links, exit_code, passed, crashed>>
    /\ UNCHANGED <<faults, selected, submitted, frame_tried>>
    /\ UNCHANGED notExtract

ExtractNext ==
    \/ E_PathMissing
    \/ E_DriverFails
    \/ E_Open
    \/ E_GetFails
    \/ E_Modal
    \/ E_ModalCrash
    \/ E_Iframe
    \/ E_IframeFails
    \/ E_IframeCrash
    \/ E_Scroll
    \/ E_ScrollFails
    \/ E_ScrollCrash
    \/ E_UseGiven
    \/ E_Discover
    \/ E_DiscoverFails
    \/ E_LoopTop
    \/ E_LoopCrash
    \/ E_Return
    \/ E_Select
    \/ E_SelectFails
    \/ E_Submit
    \/ E_SubmitFails
    \/ E_StaleWait
    \/ E_NoPrevious
    \/ E_WaitOk
    \/ E_WaitSkip
    \/ E_WaitScreenshotRaises
    \/ E_WaitCrash
    \/ E_ReadZero
    \/ E_ReadLinks
    \/ E_ReadCrash
    \/ E_Record

(***************************************************************************)
(* Properties of extract_ids_from_meeting_minutes                          *)
(***************************************************************************)
\* the category loop ran to its end and the mapping was returned
ReturnedAfterLoop == epc = "returned" /\ ~crashed

\* C6 (as claimed): the returned mapping has exactly the given (or discovered)
\* categories as its keys, whatever per-category failures occurred.
C6_KeysAreAllCategories ==
    ReturnedAfterLoop => Keys(all_extracted_ids) = Range(categories)

\* C6 (amended): the keys of the mapping are exactly the given (or discovered)
\* categories for which selection, submission and the results wait succeeded; a
\* category on which one of these failed is left out.
C6_KeysAreThePassedCategories ==
    /\ Keys(all_extracted_ids) \subseteq passed
    /\ categories # CategoriesNone => passed \subseteq Range(categories)
    /\ ReturnedAfterLoop => Keys(all_extracted_ids) = passed

\* category A failed, category B was recorded
C6_Witness ==
    /\ ReturnedAfterLoop
    /\ categories = <<"A", "B">>
    /\ passed = {"B"}
    /\ Keys(all_extracted_ids) = {"B"}

NoDuplicates(seq) == \A i, j \in 1..Len(seq) : i # j => seq[i] # seq[j]

\* C7: at every point of the run, no ID list of the mapping holds an
\* identifier twice, however many rendered links carry the same id.
C7_NoDuplicateWithinCategory ==
    \A c \in 1..Len(all_extracted_ids) : NoDuplicates(all_extracted_ids[c].ids)

\* id 1 rendered twice for B and recorded once, and recorded under A as well
C7_Witness ==
    /\ ReturnedAfterLoop
    /\ doc_links = <<DocHref("1"), DocHref("1")>>
    /\ Keys(all_extracted_ids) = {"A", "B"}
    /\ Lookup(all_extracted_ids, "B") = <<"1">>
    /\ "1" \in Range(Lookup(all_extracted_ids, "A"))

\* the steps of the category loop: lines 217, 219-225, 238-244, 255-273
LoopSteps == {"list", "select", "submit", "wait"}

\* C24 as stated: in an iteration that found links of the previous search on
\* the page, the wait for them to become stale has been performed when the
\* submit button is clicked.
C24_StaleWaitBeforeSubmit ==
    (epc = "stale" /\ current_visible_links) => stale_waited = category_index

\* C24: in each iteration that found links of the previous search on the
\* page, the wait for those nodes to become stale is performed (and finishes
\* or times out) after the submit button of the current category was clicked
\* and before the wait for the new results; it is performed for no category
\* that was not submitted, and not at all in an iteration that found no link.
C24_StaleWaitAfterSubmit ==
    /\ stale_waited <= category_index
    /\ stale_waited > 0 => \E k \in 1..Len(submitted) : submitted[k] = stale_waited
    /\ epc \in {"select", "submit", "stale"} => stale_waited < category_index
    /\ epc \in {"wait", "read", "record"} =>
          (current_visible_links <=> stale_waited = category_index)

\* the second category finds the links of the first on the page: submit,
\* then the staleness wait, then the results wait
C24_Witness ==
    /\ epc = "wait"
    /\ category_index = 2
    /\ current_visible_links
    /\ submitted = <<1, 2>>
    /\ stale_waited = 2

\* C25: the results wait of a category ends successfully only on a marker or
\* on links that the search submitted for that category rendered, so what is
\* read and recorded under a category was rendered for it.
C25_ResultsBelongToCategory ==
    epc \in {"read", "record"} => page_of = category_index

\* C18: a WebDriverException that is no timeout, raised at any step of the
\* category loop, ends the process with exit status 1 in that iteration: no
\* later category is processed and the function does not return.
C18_BrowserFaultExits ==
    \A k \in 1..Len(faults) :
        (faults[k].kind = "wde" /\ faults[k].step \in LoopSteps) =>
            /\ epc = "exited"
            /\ exit_code = 1
            /\ category_index = faults[k].index

RECURSIVE Recorded(_)
\* the mapping that the recorded iterations of a trail build
Recorded(t) ==
    IF t = <<>> THEN <<>>
    ELSE LET last == t[Len(t)]
             before == Recorded(SubSeq(t, 1, Len(t) - 1))
         IN  IF last.outcome = "recorded"
             THEN DictSet(before, last.category, last.ids)
             ELSE before

\* the kinds of failure that skip a category: dropdown, submit, results wait
SkipFault(f) ==
    \/ f.step = "select" /\ f.kind \in {"timeout", "nosuch"}
    \/ f.step = "submit" /\ f.kind = "timeout"
    \/ f.step = "wait" /\ f.kind = "timeout"

HasFault(step) == \E k \in 1..Len(faults) : faults[k].step = step

Urls == {FormatLink(id) : id \in DocIds}

\* what os.listdir(DOWNLOAD_DIR) can hold before the run
UpperPdfFile == <<"agenda", ".PDF">>
DirNames == {PdfFile, UpperPdfFile, InProgressFile, OtherFile}

FileNamesOf(dir) == {f.name : f \in dir}

\* the download directory as earlier runs left it (lines 186-190: an existing
\* directory is used as it is): empty, or one file
OldDirs == {{}} \cup {{[name |-> n, by |-> 0]} : n \in DirNames}

\* the file the portal sends for the i-th URL: the browser gives every
\* download a name of its own, "x.pdf.crdownload" while it is written
Stem(i) == <<"doc1", "doc2", "doc3", "doc4">>[i]
PartialName(i) == <<Stem(i), ".pdf", ".crdownload">>
DownloadedName(i) == <<Stem(i), ".pdf">>

\* the URL whose export wrote the file of that name (0: none of this run)
ProducedBy(name) ==
    IF \E i \in 1..4 : Stem(i) = name[1] THEN CHOOSE i \in 1..4 : Stem(i) = name[1] ELSE 0

\* the second click of lines 219-222 was made for the i-th URL
Exported(i) == \E k \in 1..Len(d_steps) : d_steps[k] = <<i, "second">>

\* lines 108-114: the candidate files that are not in the snapshot
NewCandidates == {n \in FileNamesOf(download_dir) \ initial_files : IsCandidate(n)}

\* what wait_for_file_download_completion can return (line 158): None or the
\* path of a new candidate file
WaitResults == {None} \cup {path_join(DOWNLOAD_DIR, n) : n \in NewCandidates}

\* how a URL ended: the step that failed ("none" when none did), the kind of
\* exception, what became of the screenshot, the path the wait returned
Outcome(step, kind, shot, file) == [step |-> step, kind |-> kind, shot |-> shot, file |-> file]

Step(name) == Append(d_steps, <<d_i, name>>)

DownloadInit ==
    /\ dpc = "start"
    /\ urls \in SeqsUpTo(Urls, MaxUrls)
    /\ d_i = 0
    /\ d_driver = "none"
    /\ d_raised = [step |-> "none", kind |-> "none"]
    /\ visited = <<>>
    /\ d_steps = <<>>
    /\ d_outcome = <<>>
    /\ d_aborted = FALSE
    /\ initial_files = {}
    /\ download_dir \in OldDirs

DownloadIdle ==
    /\ dpc = "idle"
    /\ urls = <<>>
    /\ d_i = 0
    /\ d_driver = "none"
    /\ d_raised = [step |-> "none", kind |-> "none"]
    /\ visited = <<>>
    /\ d_steps = <<>>
    /\ d_outcome = <<>>
    /\ d_aborted = FALSE
    /\ initial_files = {}
    /\ download_dir = {}

\* lines 181-183
D_Empty ==
    /\ dpc = "start"
    /\ urls = <<>>
    /\ dpc' = "done"
    /\ UNCHANGED <<urls, d_i, d_driver, d_raised, visited, d_steps, d_outcome,
                   d_aborted, download_dir, initial_files>>
    /\ UNCHANGED notDownload

\* lines 192-197: the browser starts
D_Setup ==
    /\ dpc = "start"
    /\ urls # <<>>
    /\ d_driver' = "open"
    /\ d_i' = 1
    /\ dpc' = "url"
    /\ UNCHANGED <<urls, d_raised, visited, d_steps, d_outcome, d_aborted,
                   download_dir, initial_files>>
    /\ UNCHANGED notDownload

\* lines 194, 252-257 (and 73, 80, 94): setup_chrome_driver raises, driver stays None
D_SetupFails ==
    /\ dpc = "start"
    /\ urls # <<>>
    /\ d_aborted' = TRUE
    /\ dpc' = "done"
    /\ UNCHANGED <<urls, d_i, d_driver, d_raised, visited, d_steps, d_outcome,
                   download_dir, initial_files>>
    /\ UNCHANGED notDownload

\* lines 85-94, 194, 252-257: webdriver.Chrome started the browser and
\* driver.maximize_window raises; setup_chrome_driver re-raises, so the local
\* driver of line 192 stays None and the finally clause quits nothing
D_MaximizeFails ==
    /\ dpc = "start"
    /\ urls # <<>>
    /\ d_driver' = "orphan"
    /\ d_aborted' = TRUE
    /\ dpc' = "done"
    /\ UNCHANGED <<urls, d_i, d_raised, visited, d_steps, d_outcome, download_dir,
                   initial_files>>
    /\ UNCHANGED notDownload

\* lines 200-207: the directory snapshot, then the navigation
D_Navigate ==
    /\ dpc = "url"
    /\ d_i <= Len(urls)
    /\ visited' = Append(visited, d_i)
    /\ d_steps' = Append(Step("snapshot"), <<d_i, "get">>)
    /\ dpc' = "first"
    /\ initial_files' = FileNamesOf(download_dir)
    /\ UNCHANGED <<urls, d_i, d_driver, d_raised, d_outcome, d_aborted, download_dir>>
    /\ UNCHANGED notDownload

\* line 202: os.listdir raises; the navigation is not reached
D_SnapshotFails ==
    /\ dpc = "url"
    /\ d_i <= Len(urls)
    /\ d_steps' = Step("snapshot")
    /\ d_raised' = [step |-> "snapshot", kind |-> "other"]
    /\ dpc' = "handler"
    /\ UNCHANGED <<urls, d_i, d_driver, visited, d_outcome, d_aborted, download_dir,
                   initial_files>>
    /\ UNCHANGED notDownload

\* line 207: driver.get raises: a page-load timeout or another WebDriverException
D_NavigateFails ==
    /\ dpc = "url"
    /\ d_i <= Len(urls)
    /\ visited' = Append(visited, d_i)
    /\ d_steps' = Append(Step("snapshot"), <<d_i, "get">>)
    /\ \E kind \in {"timeout", "wde"} : d_raised' = [step |-> "get", kind |-> kind]
    /\ dpc' = "handler"
    /\ initial_files' = FileNamesOf(download_dir)
    /\ UNCHANGED <<urls, d_i, d_driver, d_outcome, d_aborted, download_dir>>
    /\ UNCHANGED notDownload

\* lines 211-215
D_FirstClick ==
    /\ dpc = "first"
    /\ d_steps' = Step("first")
    /\ dpc' = "second"
    /\ UNCHANGED <<urls, d_i, d_driver, d_raised, visited, d_outcome, d_aborted,
                   download_dir, initial_files>>
    /\ UNCHANGED notDownload

D_FirstFailsGoesOn ==
    /\ dpc = "first"
    /\ \E kind \in {"timeout", "nosuch", "wde"} : d_raised' = [step |-> "first", kind |-> kind]
    /\ dpc' = "second"
    /\ UNCHANGED <<urls, d_i, d_driver, visited, d_steps, d_outcome, d_aborted,
                   download_dir, initial_files>>
    /\ UNCHANGED notDownload

\* lines 211-214: the wait times out, or the wait or the click raises otherwise
D_FirstFails ==
    /\ dpc = "first"
    /\ \E kind \in {"timeout", "nosuch", "wde"} : d_raised' = [step |-> "first", kind |-> kind]
    /\ dpc' = "handler"
    /\ UNCHANGED <<urls, d_i, d_driver, visited, d_steps, d_outcome, d_aborted,
                   download_dir, initial_files>>
    /\ UNCHANGED notDownload

\* lines 219-223
D_SecondClick ==
    /\ dpc = "second"
    /\ d_steps' = Step("second")
    /\ dpc' = "wait"
    /\ UNCHANGED <<urls, d_i, d_driver, d_raised, visited, d_outcome, d_aborted,
                   download_dir, initial_files>>
    /\ UNCHANGED notDownload

\* lines 219-222
D_SecondFails ==
    /\ dpc = "second"
    /\ \E kind \in {"timeout", "nosuch", "wde"} : d_raised' = [step |-> "second", kind |-> kind]
    /\ dpc' = "handler"
    /\ UNCHANGED <<urls, d_i, d_driver, visited, d_steps, d_outcome, d_aborted,
                   download_dir, initial_files>>
    /\ UNCHANGED notDownload

D_WaitRetriesOnce ==
    /\ dpc = "wait"
    /\ d_steps' = Step("wait")
    /\ \E file \in WaitResults :
         /\ d_outcome' = Append(d_outcome,
                               Outcome("none", IF file = None THEN "nofile" ELSE "none", "none", file))
         /\ d_i' = IF file = None /\ Cardinality({k \in 1..Len(visited) : visited[k] = d_i}) < 2
                   THEN d_i ELSE d_i + 1
    /\ dpc' = "url"
    /\ UNCHANGED <<urls, d_driver, d_raised, visited, d_aborted, download_dir,
                   initial_files>>
    /\ UNCHANGED notDownload

\* lines 226-233: the wait returns a path or None; either way the next URL follows
D_Wait ==
    /\ dpc = "wait"
    /\ d_steps' = Step("wait")
    /\ \E file \in WaitResults :
         d_outcome' = Append(d_outcome,
                             Outcome("none", IF file = None THEN "nofile" ELSE "none", "none", file))
    /\ d_i' = d_i + 1
    /\ dpc' = "url"
    /\ UNCHANGED <<urls, d_driver, d_raised, visited, d_aborted, download_dir,
                   initial_files>>
    /\ UNCHANGED notDownload

\* lines 226, 108, 122-126, 144: a directory or file read of the wait raises
D_WaitRaises ==
    /\ dpc = "wait"
    /\ d_steps' = Step("wait")
    /\ d_raised' = [step |-> "wait", kind |-> "other"]
    /\ dpc' = "handler"
    /\ UNCHANGED <<urls, d_i, d_driver, visited, d_outcome, d_aborted, download_dir,
                   initial_files>>
    /\ UNCHANGED notDownload

D_HandledBreaks ==
    /\ dpc = "handler"
    /\ d_outcome' = Append(d_outcome, Outcome(d_raised.step, d_raised.kind, "saved", None))
    /\ d_raised' = [step |-> "none", kind |-> "none"]
    /\ d_driver' = "quit"
    /\ dpc' = "done"
    /\ UNCHANGED <<urls, d_i, visited, d_steps, d_aborted, download_dir,
                   initial_files>>
    /\ UNCHANGED notDownload

\* lines 235-250: each of the four except clauses logs, saves a screenshot and
\* lets the for loop go on
D_Handled ==
    /\ dpc = "handler"
    /\ d_outcome' = Append(d_outcome, Outcome(d_raised.step, d_raised.kind, "saved", None))
    /\ d_raised' = [step |-> "none", kind |-> "none"]
    /\ d_i' = d_i + 1
    /\ dpc' = "url"
    /\ UNCHANGED <<urls, d_driver, visited, d_steps, d_aborted, download_dir,
                   initial_files>>
    /\ UNCHANGED notDownload

\* lines 238, 242, 246, 250, 252-257: save_screenshot raises inside the except
\* clause; the outer except clause ends the loop
D_ScreenshotRaises ==
    /\ dpc = "handler"
    /\ d_outcome' = Append(d_outcome, Outcome(d_raised.step, d_raised.kind, "raised", None))
    /\ d_raised' = [step |-> "none", kind |-> "none"]
    /\ d_aborted' = TRUE
    /\ d_driver' = "quit"
    /\ dpc' = "done"
    /\ UNCHANGED <<urls, d_i, visited, d_steps, download_dir, initial_files>>
    /\ UNCHANGED notDownload

\* lines 197 exhausted, 254-257
D_Finish ==
    /\ dpc = "url"
    /\ d_i > Len(urls)
    /\ d_driver' = "quit"
    /\ dpc' = "done"
    /\ UNCHANGED <<urls, d_i, d_raised, visited, d_steps, d_outcome, d_aborted,
                   download_dir, initial_files>>
    /\ UNCHANGED notDownload

\* lines 54-60, 222: the browser starts to write the file of an export that was
\* triggered, under its in-progress name or at once under its final name
B_FileAppears ==
    /\ d_driver = "open"
    /\ \E i \in 1..Len(urls) :
         /\ Exported(i)
         /\ \A f \in download_dir : f.by # i
         /\ \E n \in {PartialName(i), DownloadedName(i)} :
               download_dir' = download_dir \cup {[name |-> n, by |-> i]}
    /\ UNCHANGED <<dpc, urls, d_i, d_driver, d_raised, visited, d_steps, d_outcome,
                   d_aborted, initial_files>>
    /\ UNCHANGED notDownload

\* the browser has written the file and gives it its final name
B_FileRenamed ==
    /\ d_driver = "open"
    /\ \E f \in download_dir :
         /\ f.by > 0
         /\ f.name = PartialName(f.by)
         /\ download_dir' = (download_dir \ {f}) \cup {[name |-> DownloadedName(f.by), by |-> f.by]}
    /\ UNCHANGED <<dpc, urls, d_i, d_driver, d_raised, visited, d_steps, d_outcome,
                   d_aborted, initial_files>>
    /\ UNCHANGED notDownload

DownloadNext ==
    \/ D_Empty
    \/ D_Setup
    \/ D_SetupFails
    \/ D_MaximizeFails
    \/ D_Navigate
    \/ D_SnapshotFails
    \/ D_NavigateFails
    \/ D_FirstClick
    \/ D_FirstFails
    \/ D_SecondClick
    \/ D_SecondFails
    \/ D_Wait
    \/ D_WaitRaises
    \/ D_Handled
    \/ D_ScreenshotRaises
    \/ D_Finish
    \/ B_FileAppears
    \/ B_FileRenamed

(***************************************************************************)
(* Properties of download_pdf_from_webpage                                 *)
(***************************************************************************)
\* a browser-level fault while URL i was processed: a WebDriverException that
\* is no element timeout, raised by a step or by the screenshot of a handler
BrowserFault(i) == d_outcome[i].kind = "wde" \/ d_outcome[i].shot = "raised"

\* URL i was given up on a button timeout or on a download timeout
TimedOut(i) ==
    \/ d_outcome[i].kind = "timeout" /\ d_outcome[i].step \in {"first", "second"}
    \/ d_outcome[i].kind = "nofile"

\* C16: when a WebDriverException that is no element timeout occurs while
\* URL i is processed, no URL after i is navigated to.
C16_BrowserFaultAbortsRest ==
    \A i \in 1..Len(d_outcome) :
        d_outcome[i].kind = "wde" => \A k \in 1..Len(visited) : visited[k] <= i

StepOrder == <<"snapshot", "get", "first", "second", "wait">>

\* C22: for every URL the steps that were performed are an initial part of
\* directory snapshot, navigation, first click, second click, download wait
\* (so the second click follows a first click that succeeded and the wait
\* follows the second click), the steps of a URL come before those of the
\* next URL, and a URL whose first button failed has neither a second click
\* nor a download wait.
C22_StepsInOrder ==
    /\ \A k \in 1..(Len(d_steps) - 1) : d_steps[k][1] <= d_steps[k + 1][1]
    /\ \A i \in 1..Len(urls) :
          LET OfUrl(e) == e[1] = i
              done == SelectSeq(d_steps, OfUrl)
          IN  /\ Len(done) <= Len(StepOrder)
              /\ \A k \in 1..Len(done) : done[k][2] = StepOrder[k]
    /\ \A i \in 1..Len(d_outcome) :
          d_outcome[i].step = "first" =>
              \A k \in 1..Len(d_steps) :
                  d_steps[k][1] = i => d_steps[k][2] \in {"snapshot", "get"}

\* the first button of URL 1 times out, URL 2 goes through all five steps
C22_Witness ==
    /\ dpc = "done"
    /\ Len(d_outcome) = 2
    /\ d_outcome[1].step = "first"
    /\ d_outcome[1].kind = "timeout"
    /\ d_steps = <<<<1, "snapshot">>, <<1, "get">>, <<2, "snapshot">>, <<2, "get">>,
                   <<2, "first">>, <<2, "second">>, <<2, "wait">>>>

NUM_LINKS_TO_DOWNLOAD == 1

\* str.lower() of a part of a file name
lower(part) == IF part = ".PDF" THEN ".pdf" ELSE part

\* line 156: f.lower().endswith('.pdf')
IsPdfName(f) == lower(f[Len(f)]) = ".pdf"

\* line 181: os.path.splitext(pdf_file_name)[0] + '_summary.txt'
SummaryName(f) == SubSeq(f, 1, Len(f) - 1) \o <<"_summary", ".txt">>

\* what extract_text_from_pdf can return; the empty text stands for None too
PdfTexts == {t \in Texts : Len(t) <= MaxPdfTextLen}

\* final_links[:NUM_LINKS_TO_DOWNLOAD]
Take(seq, n) == SubSeq(seq, 1, IF Len(seq) < n THEN Len(seq) ELSE n)

\* open(path, "w") and write: a file of that name is replaced
WriteFile(dir, name, content) ==
    {f \in dir : f.name # name} \cup {[name |-> name, content |-> content]}

\* what became of one PDF of the list
Doc(name, has_text, summary, saved) ==
    [name |-> name, has_text |-> has_text, summary |-> summary, saved |-> saved]

MainInit ==
    /\ mpc = "start"
    /\ m_exit = -1
    /\ pdf_files_to_summarize = <<>>
    /\ summaries_dir = {}
    /\ listed = <<>>
    /\ m_docs = <<>>
    /\ m_cause = "none"
    /\ m_downloads = 0
    /\ m_summarize_calls = 0
    /\ m_reported = {}

MainIdle ==
    /\ mpc = "idle"
    /\ m_exit = -1
    /\ pdf_files_to_summarize = <<>>
    /\ summaries_dir = {}
    /\ listed = <<>>
    /\ m_docs = <<>>
    /\ m_cause = "none"
    /\ m_downloads = 0
    /\ m_summarize_calls = 0
    /\ m_reported = {}

\* the locals of a callee that has returned (or is not called) hold nothing;
\* the browser session a stage started is no local: it stays as the stage
\* left it
ExtractReset ==
    /\ epc' = "idle"
    /\ categories' = CategoriesNone
    /\ category_index' = 0
    /\ all_extracted_ids' = <<>>
    /\ UNCHANGED driver
    /\ current_visible_links' = FALSE
    /\ page_zero' = FALSE
    /\ page_has_links' = FALSE
    /\ page_of' = 0
    /\ stale_waited' = 0
    /\ doc_links' = <<>>
    /\ exit_code' = -1
    /\ passed' = {}
    /\ crashed' = FALSE
    /\ faults' = <<>>
    /\ selected' = <<>>
    /\ submitted' = <<>>
    /\ frame_tried' = FALSE
    /\ trail' = <<>>

LinksReset ==
    /\ lpc' = "idle"
    /\ extracted_data' = <<>>
    /\ extracted_data0' = <<>>
    /\ l_items' = <<>>
    /\ l_ids' = <<>>
    /\ generated_links' = <<>>

DownloadReset ==
    /\ dpc' = "idle"
    /\ urls' = <<>>
    /\ d_i' = 0
    /\ UNCHANGED d_driver
    /\ d_raised' = [step |-> "none", kind |-> "none"]
    /\ visited' = <<>>
    /\ d_steps' = <<>>
    /\ d_outcome' = <<>>
    /\ d_aborted' = FALSE
    /\ initial_files' = {}

SummarizeReset ==
    /\ spc' = "idle"
    /\ model' = FALSE
    /\ text_to_summarize' = <<>>
    /\ s_chunks' = <<>>
    /\ s_i' = 0
    /\ summaries' = <<>>
    /\ s_result' = None
    /\ api_calls' = <<>>
    /\ raisedAt' = 0
    /\ responses' = <<>>

\* sys.exit(status)
Exit(status, cause) ==
    /\ m_exit' = status
    /\ m_cause' = cause
    /\ mpc' = "exited"
    /\ UNCHANGED <<pdf_files_to_summarize, summaries_dir, listed, m_docs, m_downloads,
                   m_summarize_calls, m_reported>>

\* lines 86-91: a Chrome path does not exist
M_PathMissing ==
    /\ mpc = "start"
    /\ \E cause \in {"driver", "browser"} : Exit(1, cause)
    /\ UNCHANGED <<wvars, cvars, svars, lvars, evars, dvars>>

\* lines 93-108: the extractor is called with categories=None (line 23)
M_CallExtract ==
    /\ mpc = "start"
    /\ mpc' = "extract"
    /\ epc' = "start"
    /\ UNCHANGED <<categories, category_index, all_extracted_ids, driver,
                   current_visible_links, page_zero, page_has_links, page_of,
                   stale_waited, doc_links, exit_code, passed, crashed, ehist>>
    /\ UNCHANGED <<m_exit, pdf_files_to_summarize, summaries_dir, listed, m_docs,
                   m_cause, m_downloads, m_summarize_calls, m_reported>>
    /\ UNCHANGED <<wvars, cvars, svars, lvars, dvars>>

\* id_extractor.py lines 106, 114, 161, 166, 185, 190, 206, 210, 285: the
\* extractor ended the process
M_ExtractExited ==
    /\ mpc = "extract"
    /\ epc = "exited"
    /\ Exit(exit_code, "extractor")
    /\ UNCHANGED <<wvars, cvars, svars, lvars, evars, dvars>>

M_ExtractEmptyExitsZero ==
    /\ mpc = "extract"
    /\ epc = "returned"
    /\ all_extracted_ids = <<>>
    /\ Exit(0, "empty")
    /\ UNCHANGED <<wvars, cvars, svars, lvars, evars, dvars>>

\* lines 110-112: the extractor returned an empty mapping
M_ExtractEmpty ==
    /\ mpc = "extract"
    /\ epc = "returned"
    /\ all_extracted_ids = <<>>
    /\ Exit(1, "empty")
    /\ UNCHANGED <<wvars, cvars, svars, lvars, evars, dvars>>

\* line 114: the link builder is called with the mapping
M_CallLinks ==
    /\ mpc = "extract"
    /\ epc = "returned"
    /\ all_extracted_ids # <<>>
    /\ mpc' = "links"
    /\ lpc' = "start"
    /\ extracted_data' = all_extracted_ids
    /\ extracted_data0' = all_extracted_ids
    /\ UNCHANGED <<l_items, l_ids, generated_links>>
    /\ ExtractReset
    /\ UNCHANGED <<m_exit, pdf_files_to_summarize, summaries_dir, listed, m_docs,
                   m_cause, m_downloads, m_summarize_calls, m_reported>>
    /\ UNCHANGED <<wvars, cvars, svars, dvars>>

\* lines 116-118: no link was generated
M_NoLinks ==
    /\ mpc = "links"
    /\ lpc = "done"
    /\ generated_links = <<>>
    /\ Exit(0, "nolinks")
    /\ UNCHANGED <<wvars, cvars, svars, lvars, evars, dvars>>

\* lines 120-142: the downloader is called with the first links
M_CallDownload ==
    /\ mpc = "links"
    /\ lpc = "done"
    /\ generated_links # <<>>
    /\ mpc' = "download"
    /\ m_downloads' = m_downloads + 1
    /\ dpc' = "start"
    /\ urls' = Take(generated_links, NUM_LINKS_TO_DOWNLOAD)
    /\ download_dir' \in OldDirs
    /\ UNCHANGED <<d_i, d_driver, d_raised, visited, d_steps, d_outcome, d_aborted,
                   initial_files>>
    /\ LinksReset
    /\ UNCHANGED <<m_exit, pdf_files_to_summarize, summaries_dir, listed, m_docs,
                   m_cause, m_summarize_calls, m_reported>>
    /\ UNCHANGED <<wvars, cvars, svars, evars>>

\* lines 149-153 (summarize_text.py 75-77): no model without an API key
M_ModelFails ==
    /\ mpc = "download"
    /\ dpc = "done"
    /\ Exit(1, "model")
    /\ UNCHANGED <<wvars, cvars, svars, lvars, evars, dvars>>

\* lines 149-156: the model is there; the PDFs of the download directory are listed
M_List ==
    /\ mpc = "download"
    /\ dpc = "done"
    /\ \E listing \in Orderings(FileNamesOf(download_dir)) :
         /\ pdf_files_to_summarize' = SelectSeq(listing, IsPdfName)
         /\ listed' = SelectSeq(listing, IsPdfName)
    /\ m_reported' = {d_outcome[k].file[2] :
                         k \in {j \in 1..Len(d_outcome) : d_outcome[j].file # None}}
    /\ mpc' = "loop"
    /\ DownloadReset
    \* line 156 is the last listing of the directory in the run: the model
    \* keeps the names in listed and lets go of the directory
    /\ download_dir' = {}
    /\ UNCHANGED <<m_exit, summaries_dir, m_docs, m_cause, m_downloads, m_summarize_calls>>
    /\ UNCHANGED <<wvars, cvars, svars, lvars, evars>>

M_NoTextWritesFile ==
    /\ mpc = "loop"
    /\ pdf_files_to_summarize # <<>>
    /\ summaries_dir' = WriteFile(summaries_dir, SummaryName(Head(pdf_files_to_summarize)), <<>>)
    /\ m_docs' = Append(m_docs, Doc(Head(pdf_files_to_summarize), FALSE, None, TRUE))
    /\ pdf_files_to_summarize' = Tail(pdf_files_to_summarize)
    /\ UNCHANGED <<mpc, m_exit, listed, m_cause, m_downloads, m_summarize_calls,
                   m_reported>>
    /\ UNCHANGED <<wvars, cvars, svars, lvars, evars, dvars>>

\* lines 161-167, 184-185 (summarize_text.py 31-54): extract_text_from_pdf
\* returns None or an empty text; the file is skipped
M_NoText ==
    /\ mpc = "loop"
    /\ pdf_files_to_summarize # <<>>
    /\ m_docs' = Append(m_docs, Doc(Head(pdf_files_to_summarize), FALSE, None, FALSE))
    /\ pdf_files_to_summarize' = Tail(pdf_files_to_summarize)
    /\ UNCHANGED <<mpc, m_exit, summaries_dir, listed, m_cause, m_downloads,
                   m_summarize_calls, m_reported>>
    /\ UNCHANGED <<wvars, cvars, svars, lvars, evars, dvars>>

\* lines 161-175: text was extracted and the summarizer is called with it
M_CallSummarize ==
    /\ mpc = "loop"
    /\ pdf_files_to_summarize # <<>>
    /\ \E t \in PdfTexts \ {<<>>} : text_to_summarize' = t
    /\ model' = TRUE
    /\ spc' = "start"
    /\ UNCHANGED <<s_chunks, s_i, summaries, s_result, api_calls, raisedAt, responses>>
    /\ m_summarize_calls' = m_summarize_calls + 1
    /\ mpc' = "summarize"
    /\ UNCHANGED <<m_exit, pdf_files_to_summarize, summaries_dir, listed, m_docs,
                   m_cause, m_downloads, m_reported>>
    /\ UNCHANGED <<wvars, cvars, lvars, evars, dvars>>

M_SaveSummaryEndsLoop ==
    /\ mpc = "summarize"
    /\ spc = "done"
    /\ summaries_dir' = WriteFile(summaries_dir, SummaryName(Head(pdf_files_to_summarize)), s_result)
    /\ m_docs' = Append(m_docs, Doc(Head(pdf_files_to_summarize), TRUE, s_result, TRUE))
    /\ pdf_files_to_summarize' = <<>>
    /\ mpc' = "loop"
    /\ SummarizeReset
    /\ UNCHANGED <<m_exit, listed, m_cause, m_downloads, m_summarize_calls,
                   m_reported>>
    /\ UNCHANGED <<wvars, cvars, lvars, evars, dvars>>

\* lines 177-183 (summarize_text.py 57-70): what the summarizer returned is
\* written to the summary file, unless the write fails with an IOError
M_SaveSummary ==
    /\ mpc = "summarize"
    /\ spc = "done"
    /\ \E saved \in BOOLEAN :
         /\ summaries_dir' =
              IF saved
              THEN WriteFile(summaries_dir, SummaryName(Head(pdf_files_to_summarize)), s_result)
              ELSE summaries_dir
         /\ m_docs' = Append(m_docs, Doc(Head(pdf_files_to_summarize), TRUE, s_result, saved))
    /\ pdf_files_to_summarize' = Tail(pdf_files_to_summarize)
    /\ mpc' = "loop"
    /\ SummarizeReset
    /\ UNCHANGED <<m_exit, listed, m_cause, m_downloads, m_summarize_calls,
                   m_reported>>
    /\ UNCHANGED <<wvars, cvars, lvars, evars, dvars>>

\* lines 158-159, 161 exhausted, 187
M_Done ==
    /\ mpc = "loop"
    /\ pdf_files_to_summarize = <<>>
    /\ mpc' = "done"
    /\ UNCHANGED <<m_exit, pdf_files_to_summarize, summaries_dir, listed, m_docs,
                   m_cause, m_downloads, m_summarize_calls, m_reported>>
    /\ UNCHANGED <<wvars, cvars, svars, lvars, evars, dvars>>

MainNext ==
    \/ M_PathMissing
    \/ M_CallExtract
    \/ M_ExtractExited
    \/ M_ExtractEmpty
    \/ M_CallLinks
    \/ M_NoLinks
    \/ M_CallDownload
    \/ M_ModelFails
    \/ M_List
    \/ M_NoText
    \/ M_CallSummarize
    \/ M_SaveSummary
    \/ M_Done
    \* the extractor, called with categories=None
    \/ E_PathMissing
    \/ E_DriverFails
    \/ E_Open
    \/ E_GetFails
    \/ E_Modal
    \/ E_ModalCrash
    \/ E_Iframe
    \/ E_IframeFails
    \/ E_IframeCrash
    \/ E_Scroll
    \/ E_ScrollFails
    \/ E_ScrollCrash
    \/ E_Discover
    \/ E_DiscoverFails
    \/ E_LoopTop
    \/ E_LoopCrash
    \/ E_Return
    \/ E_Select
    \/ E_SelectFails
    \/ E_Submit
    \/ E_SubmitFails
    \/ E_StaleWait
    \/ E_NoPrevious
    \/ E_WaitOk
    \/ E_WaitSkip
    \/ E_WaitScreenshotRaises
    \/ E_WaitCrash
    \/ E_ReadZero
    \/ E_ReadLinks
    \/ E_ReadCrash
    \/ E_Record
    \* the link builder, called with a mapping that is not empty
    \/ L_Begin
    \/ L_SkipEmpty
    \/ L_Category
    \/ L_Link
    \/ L_Return
    \* the downloader, called with a list that is not empty
    \/ D_Setup
    \/ D_SetupFails
    \/ D_MaximizeFails
    \/ D_Navigate
    \/ D_SnapshotFails
    \/ D_NavigateFails
    \/ D_FirstClick
    \/ D_FirstFails
    \/ D_SecondClick
    \/ D_SecondFails
    \/ D_Wait
    \/ D_WaitRaises
    \/ D_Handled
    \/ D_ScreenshotRaises
    \/ D_Finish
    \/ B_FileAppears
    \/ B_FileRenamed
    \* the summarizer, called with a model
    \/ S_EmptyText
    \/ S_Split
    \/ S_ChunkText
    \/ S_ChunkEmpty
    \/ S_ChunkRaise
    \/ S_NoSummaries
    \/ S_Final
    \/ S_Direct
    \/ S_Single

\* summarize_text.py lines 135-205: the values of the return statements
SummarizeReturns ==
    {ERR_NO_MODEL, ERR_EMPTY, ERR_NO_SUMMARIES, ErrFinalEmpty, ErrSingleEmpty}
        \cup {ErrChunk(e) : e \in Exceptions}
        \cup {ErrFinal(e) : e \in Exceptions}
        \cup {ErrSingle(e) : e \in Exceptions}
        \cup {fill(reply) : reply \in Replies}

\* summarize_text.py lines 160-162, 166-167, 183-187, 201-205: the API gave no
\* candidate or raised, for a chunk, on the final pass or on the single call
ApiFailed(result) ==
    result \in {ERR_NO_SUMMARIES, ErrFinalEmpty, ErrSingleEmpty}
        \cup {ErrChunk(e) : e \in Exceptions}
        \cup {ErrFinal(e) : e \in Exceptions}
        \cup {ErrSingle(e) : e \in Exceptions}

\* C12: summarize_text_with_gemini never propagates a fault: whatever the API
\* gives (text, empty result, exception) on the single call, on a chunk call
\* or on the final pass, the call ends with one of the strings of its return
\* statements; so the loop of the workflow visits the PDFs of the list in
\* order and, when the workflow ends, every listed PDF has been processed,
\* those after a failed summarization included.
C12_SummarizeNeverPropagates ==
    /\ spc = "done" => s_result \in SummarizeReturns
    /\ Len(m_docs) <= Len(listed)
    /\ \A k \in 1..Len(m_docs) :
          /\ m_docs[k].name = listed[k]
          /\ m_docs[k].has_text => m_docs[k].summary \in SummarizeReturns
    /\ mpc \in {"loop", "summarize"} =>
          pdf_files_to_summarize = SubSeq(listed, Len(m_docs) + 1, Len(listed))
    /\ mpc = "done" => Len(m_docs) = Len(listed)

C12_Witness ==
    /\ mpc = "done"
    /\ Len(m_docs) = 2
    /\ ApiFailed(m_docs[1].summary)
    /\ m_docs[1].summary \in {ErrChunk(e) : e \in Exceptions}
    /\ m_docs[2].has_text
    /\ m_docs[2].summary \in {fill(reply) : reply \in Replies}

\* C13: when the API gives an empty or failed result for a document, the
\* workflow treats the document as having no summary: no <basename>_summary.txt
\* is written for it.
C13_FailedResultWritesNoFile ==
    \A k \in 1..Len(m_docs) :
        ApiFailed(m_docs[k].summary) =>
            /\ ~m_docs[k].saved
            /\ \A f \in summaries_dir : f.name = SummaryName(m_docs[k].name) =>
                                           ~ApiFailed(f.content)

\* C14 as stated: at the end of the workflow the summaries directory holds
\* <basename>_summary.txt for every .pdf file of the download directory, a
\* PDF without extractable text included.
C14_EveryPdfHasSummaryFile ==
    mpc = "done" =>
        \A k \in 1..Len(listed) : SummaryName(listed[k]) \in FileNamesOf(summaries_dir)

\* the names of the summary files the loop has written
WrittenNames == {SummaryName(m_docs[k].name) : k \in {j \in 1..Len(m_docs) : m_docs[j].saved}}

\* C14: at the end of the workflow the summaries directory holds
\* <basename>_summary.txt for each .pdf file of the download directory from
\* which text was extracted and whose summary file could be written; for a
\* PDF from which no text could be extracted nothing is written.
C14_PdfWithTextHasSummaryFile ==
    /\ \A k \in 1..Len(m_docs) : ~m_docs[k].has_text => ~m_docs[k].saved
    /\ FileNamesOf(summaries_dir) = WrittenNames
    /\ mpc = "done" =>
          \A k \in 1..Len(listed) :
              /\ m_docs[k].name = listed[k]
              /\ (m_docs[k].has_text /\ m_docs[k].saved)
                    <=> SummaryName(listed[k]) \in FileNamesOf(summaries_dir)

C14_Witness ==
    /\ mpc = "done"
    /\ listed = <<DownloadedName(1), UpperPdfFile>>
    /\ ~m_docs[1].has_text
    /\ m_docs[2].has_text
    /\ m_docs[2].saved
    /\ FileNamesOf(summaries_dir) = {<<"agenda", "_summary", ".txt">>}

\* C26 (as claimed): the path logged as the completed download of the j-th
\* URL names a file that the export click made for the j-th URL wrote, never
\* a file that the export of an earlier URL wrote.
C26_ReportedFileIsOwnDownload ==
    \A j \in 1..Len(d_outcome) :
        d_outcome[j].file # None => ProducedBy(d_outcome[j].file[2]) = j

\* C28 (as claimed): when the workflow has listed the files to summarize,
\* every file the download stage logged as a completed download is in the
\* list (under the name it has by then), and every file of the list was
\* written by a download of this run.
C28_ReportedFilesAreSummarizedAndNoOthers ==
    mpc \in {"loop", "summarize", "done"} =>
        /\ \A n \in m_reported :
              \E k \in 1..Len(listed) : ProducedBy(listed[k]) = ProducedBy(n)
        /\ \A k \in 1..Len(listed) : ProducedBy(listed[k]) # 0

\* C21: on every path out of the extractor stage and of the download stage
\* (return, per-item failure, caught exception, sys.exit) a browser session
\* that the stage started has been quit when control leaves the stage, and
\* while the download stage's session exists the extractor's has been quit.
C21_SessionsQuitAndNotShared ==
    /\ epc \in {"idle", "returned", "exited"} => driver \in {"none", "quit"}
    /\ dpc \in {"idle", "done"} => d_driver \in {"none", "quit"}
    /\ d_driver \in {"open", "orphan"} => driver = "quit"

\* C15 as stated: exit status 1 exactly when the driver or the browser binary
\* is missing, the extraction returned an empty mapping or the model could
\* not be initialised; exit status 0 when no link was generated; a run that
\* exits has attempted no download and made no summarization call.
C15_ExitStatus ==
    /\ m_exit = 1 <=> (mpc = "exited" /\ m_cause \in {"driver", "browser", "empty", "model"})
    /\ m_cause = "nolinks" => m_exit = 0
    /\ mpc = "exited" => (m_downloads = 0 /\ m_summarize_calls = 0)

\* C15: sys.exit(1) ends the run exactly when the driver or the browser
\* binary is missing, the extractor itself ended the process, the extraction
\* returned an empty mapping or the model could not be initialised;
\* sys.exit(0) ends it exactly when the extraction gave a mapping from which
\* no link was generated. A run that exits before the download stage has
\* attempted no download; the exit for the model comes after the download
\* stage; no run that exits has made a summarization call.
C15_ExitStatusByStage ==
    /\ m_exit = 1 <=>
          (mpc = "exited" /\ m_cause \in {"driver", "browser", "extractor", "empty", "model"})
    /\ m_exit = 0 <=> (mpc = "exited" /\ m_cause = "nolinks")
    /\ m_cause \in {"driver", "browser"} => epc = "idle"
    /\ m_cause = "extractor" => epc = "exited"
    /\ m_cause = "empty" => (epc = "returned" /\ all_extracted_ids = <<>>)
    /\ m_cause = "nolinks" => (lpc = "done" /\ extracted_data0 # <<>> /\ generated_links = <<>>)
    /\ m_cause = "model" => dpc = "done"
    /\ mpc = "exited" =>
          /\ m_summarize_calls = 0
          /\ m_downloads = (IF m_cause = "model" THEN 1 ELSE 0)
    /\ mpc = "done" => m_exit = -1

C15_Witness ==
    /\ mpc = "exited"
    /\ m_cause = "model"
    /\ m_exit = 1
    /\ m_downloads = 1
    /\ m_summarize_calls = 0

(***************************************************************************)
(* Bounded waits and no retries                                            *)
(***************************************************************************)
\* the most time a poll that began before the timeout can take: range(5)
\* samples of every candidate without a temporary extension (lines 142-143),
\* then the sleep of line 157
PollTime ==
    SAMPLE_COUNT * SAMPLE_SLEEP * Cardinality(CandidateFiles \ TemporaryFiles) + POLL_SLEEP

\* the latest time at which the function can still be running
WaitLimit == file_download_timeout + PollTime

\* what is left of the current pass over potential_downloads (lines 118-155)
PollRank ==
    CASE wpc = "while" -> IF download_complete
                          THEN 1 ELSE 2 * Cardinality(CandidateFiles) + 3
      [] wpc = "for" -> 2 * Len(potential_downloads) + 2
      [] wpc = "pdf" -> 2 * Len(potential_downloads) + 1
      [] OTHER -> 0

\* a natural number that every step of the function makes smaller: the time
\* left up to WaitLimit first, what is left of the current poll second
WaitRank ==
    IF wpc \in {"while", "for", "pdf"}
    THEN (WaitLimit - now) * (2 * Cardinality(CandidateFiles) + 4) + PollRank
    ELSE 0

\* C31: every wait is one bounded poll loop and nothing is retried.
\* wait_for_file_download_completion: whatever the download directory does,
\* a poll begins only before the timeout (so at most one poll per sleep of
\* line 157 that fits before it), the function never runs past WaitLimit,
\* it can always take a step until it has ended, and every step makes
\* WaitRank smaller: it ends.  Within one run every entry of the URL list
\* is navigated to at most once, every entry of the category list is
\* submitted at most once, and the i-th call with a chunk prompt is the call
\* for the i-th chunk, so every chunk is sent at most once; at most one
\* single-text call and one final call are made.
C31_BoundedWaitsNoRetry ==
    /\ [](/\ now <= WaitLimit
          /\ WaitRank >= 0
          /\ poll >= 1 => (poll - 1) * POLL_SLEEP < file_download_timeout
          /\ wpc \in {"while", "for", "pdf"} => ENABLED WaitNext
          /\ NoDuplicates(visited)
          /\ NoDuplicates(submitted)
          /\ \A i \in ChunkCallPositions :
                i <= Len(s_chunks) /\ api_calls[i] = ChunkPrompt(s_chunks[i])
          /\ Cardinality({i \in 1..Len(api_calls) : api_calls[i].kind # "chunk"}) <= 1)
    /\ [][WaitRank' < WaitRank]_wvars

\* three polls find nothing complete and the function returns at the timeout
C31_Witness ==
    /\ wpc = "done"
    /\ ~download_complete
    /\ poll = 3
    /\ file_download_timeout = 3 * POLL_SLEEP
    /\ now >= file_download_timeout

(***************************************************************************)
(* Specifications                                                          *)
(***************************************************************************)
InitWait == WaitInit /\ steady = <<>> /\ ChunkIdle /\ SummarizeIdle /\ LinksIdle /\ ExtractIdle /\ DownloadIdle
    /\ MainIdle

InitSteady ==
    SteadyInit /\ ChunkIdle /\ SummarizeIdle /\ LinksIdle /\ ExtractIdle /\ DownloadIdle
    /\ MainIdle

InitChunk == ChunkInit /\ WaitIdle /\ SummarizeIdle /\ LinksIdle /\ ExtractIdle /\ DownloadIdle
    /\ MainIdle

InitSummarize == SummarizeInit /\ WaitIdle /\ ChunkIdle /\ LinksIdle /\ ExtractIdle /\ DownloadIdle
    /\ MainIdle

InitLinks == LinksInit /\ WaitIdle /\ ChunkIdle /\ SummarizeIdle /\ ExtractIdle /\ DownloadIdle
    /\ MainIdle

InitExtract == ExtractInit /\ WaitIdle /\ ChunkIdle /\ SummarizeIdle /\ LinksIdle /\ DownloadIdle
    /\ MainIdle

InitDownload ==
    DownloadInit /\ WaitIdle /\ ChunkIdle /\ SummarizeIdle /\ LinksIdle /\ ExtractIdle
    /\ MainIdle

InitMain ==
    MainInit /\ WaitIdle /\ ChunkIdle /\ SummarizeIdle /\ LinksIdle /\ ExtractIdle
    /\ DownloadIdle

SpecWait == InitWait /\ [][WaitNext]_vars

\* the function is one thread that runs on: no step waits for anything but
\* time.sleep
SpecSteady == InitSteady /\ [][SteadyNext]_vars /\ WF_vars(SteadyNext)

SpecChunk == InitChunk /\ [][ChunkNext]_vars

SpecSummarize == InitSummarize /\ [][SummarizeNext]_vars

SpecLinks == InitLinks /\ [][LinksNext]_vars

SpecExtract == InitExtract /\ [][ExtractNext]_vars

SpecDownload == InitDownload /\ [][DownloadNext]_vars

SpecMain == InitMain /\ [][MainNext]_vars

\* each of the four functions that wait or loop, called on its own (the
\* downloader with a download directory that is empty at the call)
InitFunctions ==
    InitWait \/ InitExtract \/ (InitDownload /\ download_dir = {}) \/ InitSummarize

FunctionsNext == WaitNext \/ ExtractNext \/ DownloadNext \/ SummarizeNext

SpecFunctions == InitFunctions /\ [][FunctionsNext]_vars

====
